---- MODULE Spec2Model ----
(***************************************************************************)
(* One round of VanillaNetSquidRoundSetManager: process() and              *)
(* _run_application() of adk/managers/vanilla_netsquid_roundet_manager.py. *)
(* The engine thread walks through input preparation, output staging,      *)
(* program loading, task submission, the virtual-clock drain, the          *)
(* as_completed loop, the raw-results write, the archive copy and the      *)
(* result conversion.  Every role program is a task of the thread pool     *)
(* that runs concurrently with the engine thread.                          *)
(***************************************************************************)
EXTENDS Integers, Sequences, FiniteSets, TLC

(* ------------------------------ bounds --------------------------------- *)
\* Largest role table of the general specification.
MaxRoles == 3
\* Wall-clock seconds the model follows while the engine waits for results.
MaxWall == 2
\* Largest wall-clock timeout a caller passes to process().
MaxTimeout == 2
\* Largest os.cpu_count() of the machine.
MaxCpus == 1
\* Largest role table given to the topology builder.
MaxNetRoles == 3
\* Largest node-template catalog and channel-template catalog.
MaxCatalog == 2
\* Most rounds started on one experiment directory.
MaxRounds == 2
\* Most add_log_command calls of one round.
MaxLogs == 2
\* Most quantum-link entries of one role when several roles flush at once.
MaxFlushEntries == 2
\* entries of network_log.yaml up to which finish_logging is called again
MaxNetworkEntries == 4
\* Most calls made on the local API.
MaxApiCalls == 2
\* Most roles of an application; most nodes of a known network.
MaxApiRoles == 3
MaxNetworkNodes == 2
\* Most rounds an experiment.json asks for.
MaxExpRounds == 2
\* managers made, process() and terminate() calls on them, and the last
\* wall-clock second
MaxManagers == 2
MaxProcessCalls == 2
MaxTerminates == 2
MaxSeconds == 1
\* Role table of the pool specification: one more role than the smallest
\* default pool (os.cpu_count() = 1 gives 5 workers) has workers.
PoolRoles == 6

(* ----------------------------- constants ------------------------------- *)
\* process(timeout=None): no wall-clock bound.
NoTimeout == -1
\* round_number = 1 in process().
RoundNumber == 1

\* Values a role program can return.
Values == {"v0", "v1"}
NoValue == "-"

VARIABLES
    pc,            \* position of the engine thread in process()/_run_application()
    role_dict,     \* the role table, in iteration order
    timeout,       \* the timeout argument of process()
    cpu_count,     \* os.cpu_count() of the machine
    wall,          \* wall-clock seconds elapsed since the drain was called
    overran,       \* the timeout elapsed while a role task was unfinished
    last_dir,      \* raw_output/LAST: "absent", "old" (previous round) or "fresh"
    wtc_dir,       \* raw_output/<timestamp>: "absent", "exists", "created", "copied"
    nloaded,       \* roles whose module and input document are loaded
    nsubmitted,    \* roles whose task has been submitted
    queue,         \* work queue of the pool (submitted, no worker yet)
    task,          \* state of each role's task
    ret,           \* value returned by each finished role task
    processed,     \* futures the as_completed loop has handled
    final_result,  \* dict of collected outputs: set of <<key, value>>
    printed,       \* exceptions printed by the as_completed loop, in order
    sim_calls,     \* number of calls of ns.sim_run()
    drained,       \* ns.sim_run() has returned
    results_yaml,  \* raw_output/LAST/results.yaml: <<>> or <<final_result>>
    archive,       \* content copied into raw_output/<timestamp>
    round_failed,  \* local of process()
    exc,           \* exception caught by process() or escaping from it
    result,        \* the element of the list process() returns
    \* create_netsquid_fully_connected_network (netsquid_network_generator.py)
    role_slug,           \* values of role_dict: the node slug of each role
    node_properties,     \* node-template catalog, in order
    channel_properties,  \* channel-template catalog, in order
    net_pc,              \* position in the builder
    net_i,               \* index of the next role, then of the next pair
    netsquid_nodes,      \* nodes built so far, in insertion order
    clinks,              \* classical connections made, in order
    qlinks,              \* quantum connections made, in order
    net_exc,             \* exception that left the builder
    \* link_distance (netsquid_network_generator.py)
    coords_one,          \* node_one_coords: <<latitude, longitude>> in degrees
    coords_two,          \* node_two_coords
    distance_fwd,        \* link_distance(coords_one, coords_two), or NoDistance
    distance_bwd,        \* link_distance(coords_two, coords_one), or NoDistance
    \* VanillaNetSquidLogger (vanilla_netsquid_log_generator.py)
    instrs_logs,         \* self.instrs_logs of each role's logger
    clink_logs,          \* self.clink_logs of each role's logger
    qlink_logs,          \* self.qlink_logs of each role's logger
    instr_file,          \* LAST/<role>_instrs.yaml: its entries, <<>> if absent
    clink_file,          \* LAST/<role>_class_comm.yaml: its entries, <<>> if absent
    network_log,         \* LAST/network_log.yaml: its entries, <<>> if absent
    finished,            \* the role's program has called finish_logging
    log_round,           \* number of rounds started
    ncalls,              \* add_log_command calls of the current round
    last_call,           \* the last call on a logger and how it ended
    round_pc,            \* the round of the loggers: "running", "copied", "failed"
    wtc_copy,            \* log files copied to the round's timestamp directory
    results_file,        \* LAST/results.yaml of the loggers' round: <<>> if absent
    wtc_results,         \* results.yaml in the round's timestamp directory
    \* finish_logging of several roles at once, on network_log.yaml
    flush_pc,            \* each role's position in lines 102-105
    flush_written,       \* pieces of the role's text handed to the file so far
    network_bytes,       \* network_log.yaml as the pieces written to it, in order
    \* LocalApi (local_api.py)
    config_exists,       \* the configuration file of the config manager exists
    registered,          \* application names registered in the configuration
    app_entry,           \* path/<application_name>: "absent" or "dir"
    networks,            \* utils.get_network_nodes(): node count of each network
    exp_entry,           \* path/<name> of an experiment: "absent" or "dir"
    exp_input,           \* path/<name>/input exists
    exp_json,            \* number_of_rounds in path/<name>/experiment.json, 0: no file
    api_pc,              \* position inside create_application, "idle" between calls
    api_call,            \* the current or last call of the API and its outcome
    api_ncalls,          \* number of API calls made
    no_network_names,    \* names whose last creation ended in NoNetworkAvailable
    app_dir,             \* what is in the directory of the application asked about
    \* VanillaNetSquidRoundSetManager over several rounds
    m_pc,                \* "none": no manager yet; "ready": between calls; else the
                         \* position of process() in "stage", "load", "run"
    built,               \* number of topologies built so far
    netsquid_nodes_id,   \* which of them self.netsquid_nodes is, 0: none
    used_by_round,       \* per round that loaded its programs: the topology they got
    input_dir,           \* <experiment>/input: "absent", "empty" or "files"
    now,                 \* datetime.now() in whole seconds
    m_wtc,               \* the second that names the round's timestamp directory
    stamp_dir,           \* raw_output/<second>: "absent", "empty" or "copied"
    populated_by,        \* per second: the rounds that copied into raw_output/<second>
    m_last,              \* raw_output/LAST: "absent", "empty" or "results"
    m_round,             \* number of process() calls
    m_result,            \* what the last process() call returned
    m_last_op,           \* the last call on the manager
    nterminate           \* number of terminate() calls

engineVars == <<pc, role_dict, timeout, cpu_count, wall, overran, last_dir,
                wtc_dir, nloaded, nsubmitted, queue, task, ret, processed,
                final_result, printed, sim_calls, drained, results_yaml,
                archive, round_failed, exc, result>>

netVars == <<role_slug, node_properties, channel_properties, net_pc, net_i,
             netsquid_nodes, clinks, qlinks, net_exc>>

distVars == <<coords_one, coords_two, distance_fwd, distance_bwd>>

logVars == <<instrs_logs, clink_logs, qlink_logs, instr_file, clink_file,
             network_log, finished, log_round, ncalls, last_call, round_pc,
             wtc_copy, results_file, wtc_results>>

flushVars == <<flush_pc, flush_written, network_bytes>>

apiVars == <<config_exists, registered, app_entry, networks, exp_entry,
             exp_input, exp_json, api_pc, api_call, api_ncalls,
             no_network_names, app_dir>>

managerVars == <<m_pc, built, netsquid_nodes_id, used_by_round, input_dir, now,
                 m_wtc, stamp_dir, populated_by, m_last, m_round, m_result,
                 m_last_op, nterminate>>

\* What the engine, the builder, link_distance and the loggers never touch.
restVars == <<flushVars, apiVars, managerVars>>

\* What process() and the role tasks never touch.
otherVars == <<netVars, distVars, logVars, restVars>>

vars == <<engineVars, otherVars>>

(* ------------------------------ helpers -------------------------------- *)
Roles == {role_dict[i] : i \in 1..Len(role_dict)}

RoleTable(n) == [i \in 1..n |-> i]

NoExc == [type |-> "", message |-> <<"", 0>>]

NoResult == [kind |-> "none", round_number |-> 0, exception_type |-> "",
             message |-> <<"", 0>>, raw |-> {}]

\* str(role): the bare role name as a dict key (a name is a prefix and a role).
RoleName(role) == <<"", role>>

\* The key built from the variable role of the loading loop, which still
\* names the last role of the table when the as_completed loop runs.
AppKeyOfLoopVariable(role) == <<"app_", role_dict[Len(role_dict)]>>

\* f"app_{role_name}": the key under which a role's output is collected.
AppKey(role) == <<"app_", role>>

\* final_result[key] = value: a dict assignment replaces an existing key.
DictSet(d, key, value) == {p \in d : p[1] # key} \cup {<<key, value>>}

DictKeys(d) == {p[1] : p \in d}

\* The exception a role program raises.
RoleException(role) == [type |-> "RuntimeError", message |-> <<"main", role>>]

\* Default size of ThreadPoolExecutor(): min(32, (os.cpu_count() or 1) + 4).
max_workers == IF cpu_count + 4 < 32 THEN cpu_count + 4 ELSE 32

\* Tasks that hold a worker thread.
Busy == {r \in Roles : task[r] \in {"running", "waiting", "resumed"}}

\* A future taken for done as soon as a worker has picked its task up.
TaskDoneWhenStarted(r) == task[r] \notin {"none", "queued"}

\* A future is done: its task returned or raised.
TaskDone(r) == task[r] \in {"returned", "raised"}

Submitted == {role_dict[i] : i \in 1..nsubmitted}

\* All role tasks of the round are in the pool.
AllSubmitted == nsubmitted = Len(role_dict)

\* The drain called inside the submitting loop, after the first submit.
AfterSubmitDrainInLoop(k) == "sim_run"

\* Where the engine goes after the k-th submit: the dict comprehension
\* (line 171) ends with the last role, and ns.sim_run() (line 172) follows.
AfterSubmit(k) == IF k = Len(role_dict) THEN "sim_run" ELSE "submit"

\* The pool entered inside the loading loop, after the first role is loaded.
AfterLoadSubmitInLoop(k) == "submit"

\* Where the engine goes after the k-th role is loaded: the loading loop
\* (lines 147-167) runs over the whole role table before the with-block
\* (line 170) is entered.
AfterLoad(k) == IF k = Len(role_dict) THEN "submit" ELSE "load"

\* The engine is inside the with-block waiting for the role tasks.
Waiting == pc \in {"draining", "as_completed"}

(* ------------------------------- Init ---------------------------------- *)
InitRest ==
    /\ pc = "idle"
    /\ timeout = NoTimeout
    /\ wall = 0
    /\ overran = FALSE
    /\ last_dir \in {"absent", "old"}
    /\ wtc_dir \in {"absent", "exists"}
    /\ nloaded = 0
    /\ nsubmitted = 0
    /\ queue = <<>>
    /\ task = [r \in Roles |-> "none"]
    /\ ret = [r \in Roles |-> NoValue]
    /\ processed = {}
    /\ final_result = {}
    /\ printed = <<>>
    /\ sim_calls = 0
    /\ drained = FALSE
    /\ results_yaml = <<>>
    /\ archive = <<>>
    /\ round_failed = FALSE
    /\ exc = NoExc
    /\ result = NoResult

\* link_distance has not returned yet.
NoDistance == -1

\* The builder and link_distance are not running.
NetRest ==
    /\ node_properties = <<>>
    /\ channel_properties = <<>>
    /\ net_pc = "idle"
    /\ net_i = 0
    /\ netsquid_nodes = <<>>
    /\ clinks = <<>>
    /\ qlinks = <<>>
    /\ net_exc = [type |-> "", origin |-> ""]

NetIdle ==
    /\ role_slug = [r \in Roles |-> 1]
    /\ NetRest

DistIdle ==
    /\ coords_one = <<0, 0>>
    /\ coords_two = <<0, 0>>
    /\ distance_fwd = NoDistance
    /\ distance_bwd = NoDistance

\* The roles that own a logger: "Sender" and "Receiver".
LogRoles == {1, 2}

\* No call has been made on a logger.
NoCall == [op |-> "", role |-> 0, log_type |-> "", sender |-> 0,
           receiver |-> 0, raised |-> ""]

\* Fresh loggers, empty LAST directory.
FreshLogs ==
    /\ instrs_logs = [r \in LogRoles |-> <<>>]
    /\ clink_logs = [r \in LogRoles |-> <<>>]
    /\ qlink_logs = [r \in LogRoles |-> <<>>]
    /\ instr_file = [r \in LogRoles |-> <<>>]
    /\ clink_file = [r \in LogRoles |-> <<>>]
    /\ network_log = <<>>
    /\ finished = [r \in LogRoles |-> FALSE]
    /\ ncalls = 0
    /\ last_call = NoCall
    /\ round_pc = "running"
    /\ wtc_copy = <<>>
    /\ results_file = <<>>
    /\ wtc_results = <<>>

\* No round has created a logger.
LogIdle ==
    /\ FreshLogs
    /\ log_round = 0

\* No logger is writing network_log.yaml.
FlushIdle ==
    /\ flush_pc = [r \in LogRoles |-> "idle"]
    /\ flush_written = [r \in LogRoles |-> 0]
    /\ network_bytes = <<>>

\* The applications and experiments the API is called with.
AppNames == {"app1", "app2"}
ExpNames == {"exp1"}

\* No call has been made on the API.
\* What is_application_valid finds in the directory of a registered
\* application: the config and src directories, MANIFEST.ini, whether the
\* role files of application.json are all in src, and each json file of
\* config as absent, not json, json that fails its schema, or valid.  Without
\* a config directory there are no json files.
ConfigFiles == <<"application.json", "network.json", "result.json">>
JsonStates == {"absent", "invalid", "schema_invalid", "valid"}
AppDirFacts ==
    {f \in [config : BOOLEAN, src : BOOLEAN, manifest : BOOLEAN,
            roles_match : BOOLEAN, json : [1..3 -> JsonStates]] :
        ~f.config => \A i \in 1..3 : f.json[i] = "absent"}

\* An application directory as create_application leaves it.
CompleteAppDir == [config |-> TRUE, src |-> TRUE, manifest |-> TRUE,
                   roles_match |-> TRUE, json |-> [i \in 1..3 |-> "valid"]]

NoErrors == [error |-> <<>>, warning |-> <<>>, info |-> <<>>]

NoApiCall == [op |-> "", name |-> "", nroles |-> 0, all_results |-> FALSE,
              raised |-> "", ret |-> <<>>, structure_calls |-> 0,
              json_writes |-> 0, validations |-> 0, asset_result |-> <<>>,
              converted |-> <<>>, app_networks |-> {}, available |-> FALSE,
              validators |-> <<>>, error_dict |-> NoErrors]

\* The API is not in use: no configuration, no application, no experiment.
ApiIdle ==
    /\ config_exists = FALSE
    /\ registered = {}
    /\ app_entry = [a \in AppNames |-> "absent"]
    /\ networks = {}
    /\ exp_entry = [e \in ExpNames |-> "absent"]
    /\ exp_input = [e \in ExpNames |-> FALSE]
    /\ exp_json = [e \in ExpNames |-> 0]
    /\ api_pc = "idle"
    /\ api_call = NoApiCall
    /\ api_ncalls = 0
    /\ no_network_names = {}
    /\ app_dir = CompleteAppDir

\* Wall-clock seconds of the rounds of a manager.
Seconds == 0..MaxSeconds

NoRoundResult == [kind |-> "none", exception_type |-> ""]

\* No round-set manager has been made.
ManagerIdle ==
    /\ m_pc = "none"
    /\ built = 0
    /\ netsquid_nodes_id = 0
    /\ used_by_round = <<>>
    /\ input_dir = "absent"
    /\ now = 0
    /\ m_wtc = 0
    /\ stamp_dir = [s \in Seconds |-> "absent"]
    /\ populated_by = [s \in Seconds |-> {}]
    /\ m_last = "absent"
    /\ m_round = 0
    /\ m_result = NoRoundResult
    /\ m_last_op = "none"
    /\ nterminate = 0

RestIdle == FlushIdle /\ ApiIdle /\ ManagerIdle

Init ==
    /\ \E n \in 1..MaxRoles : role_dict = RoleTable(n)
    /\ cpu_count \in 1..MaxCpus
    /\ InitRest
    /\ NetIdle
    /\ DistIdle
    /\ LogIdle
    /\ RestIdle

(* ------------------------- the engine thread --------------------------- *)
\* process(timeout) is called (line 51).
Process(t) ==
    /\ pc = "idle"
    /\ timeout' = t
    /\ pc' = "prepare_input"
    /\ UNCHANGED <<otherVars, role_dict, cpu_count, wall, overran, last_dir, wtc_dir,
                   nloaded, nsubmitted, queue, task, ret, processed,
                   final_result, printed, sim_calls, drained, results_yaml,
                   archive, round_failed, exc, result>>

\* self.__input_parser.prepare_input(self.__asset) (line 63), outside the try.
PrepareInput(ok) ==
    /\ pc = "prepare_input"
    /\ IF ok
         THEN pc' = "prepare_output" /\ exc' = exc
         ELSE pc' = "escaped"
              /\ exc' = [type |-> "InputError", message |-> <<"prepare_input", 0>>]
    /\ UNCHANGED <<otherVars, role_dict, timeout, cpu_count, wall, overran, last_dir,
                   wtc_dir, nloaded, nsubmitted, queue, task, ret, processed,
                   final_result, printed, sim_calls, drained, results_yaml,
                   archive, round_failed, result>>

\* self.__output_converter.prepare_output() (line 64), outside the try.
PrepareOutput(ok) ==
    /\ pc = "prepare_output"
    /\ IF ok
         THEN pc' = "stage_output" /\ exc' = exc
         ELSE pc' = "escaped"
              /\ exc' = [type |-> "OutputError", message |-> <<"prepare_output", 0>>]
    /\ UNCHANGED <<otherVars, role_dict, timeout, cpu_count, wall, overran, last_dir,
                   wtc_dir, nloaded, nsubmitted, queue, task, ret, processed,
                   final_result, printed, sim_calls, drained, results_yaml,
                   archive, round_failed, result>>

\* LAST after lines 140-141 alone: created if missing, else left as it is.
LastAfterStagingNoRemoval(last) == IF last = "absent" THEN "fresh" ELSE last

\* LAST after lines 129-132 and 140-141: removed if it is a directory, then
\* created, so it is new and empty whatever it was.
LastAfterStaging(last) == "fresh"

\* Lines 129-141: remove LAST, create the timestamp directory (mkdir without
\* exist_ok raises FileExistsError when it exists), create a fresh LAST.
StageOutput ==
    /\ pc = "stage_output"
    /\ IF wtc_dir = "exists"
         THEN /\ last_dir' = "absent"
              /\ wtc_dir' = wtc_dir
              /\ exc' = [type |-> "FileExistsError", message |-> <<"wtc", 0>>]
              /\ pc' = "except"
         ELSE /\ last_dir' = LastAfterStaging(last_dir)
              /\ wtc_dir' = "created"
              /\ exc' = exc
              /\ pc' = "load"
    /\ UNCHANGED <<otherVars, role_dict, timeout, cpu_count, wall, overran, nloaded,
                   nsubmitted, queue, task, ret, processed, final_result,
                   printed, sim_calls, drained, results_yaml, archive,
                   round_failed, result>>

\* One iteration of the loading loop (lines 147-167): exec_module of
\* app_<role>.py and yaml.safe_load of <role>.yaml; either can raise.
LoadRole(ok) ==
    /\ pc = "load"
    /\ nloaded < Len(role_dict)
    /\ IF ok
         THEN /\ nloaded' = nloaded + 1
              /\ pc' = AfterLoad(nloaded + 1)
              /\ exc' = exc
         ELSE /\ nloaded' = nloaded
              /\ pc' = "except"
              /\ exc' = [type |-> "FileNotFoundError",
                         message |-> <<"load", role_dict[nloaded + 1]>>]
    /\ UNCHANGED <<otherVars, role_dict, timeout, cpu_count, wall, overran, last_dir,
                   wtc_dir, nsubmitted, queue, task, ret, processed,
                   final_result, printed, sim_calls, drained, results_yaml,
                   archive, round_failed, result>>

\* One executor.submit of the dict comprehension (line 171).
Submit ==
    /\ pc = "submit"
    /\ nsubmitted < Len(role_dict)
    /\ nsubmitted' = nsubmitted + 1
    /\ queue' = Append(queue, role_dict[nsubmitted + 1])
    /\ task' = [task EXCEPT ![role_dict[nsubmitted + 1]] = "queued"]
    /\ pc' = AfterSubmit(nsubmitted + 1)
    /\ UNCHANGED <<otherVars, role_dict, timeout, cpu_count, wall, overran, last_dir,
                   wtc_dir, nloaded, ret, processed, final_result, printed,
                   sim_calls, drained, results_yaml, archive, round_failed,
                   exc, result>>

\* ns.sim_run() is called (line 172).
SimRunCall ==
    /\ pc = "sim_run"
    /\ sim_calls' = sim_calls + 1
    /\ pc' = "draining"
    /\ UNCHANGED <<otherVars, role_dict, timeout, cpu_count, wall, overran, last_dir,
                   wtc_dir, nloaded, nsubmitted, queue, task, ret, processed,
                   final_result, printed, drained, results_yaml, archive,
                   round_failed, exc, result>>

\* ns.sim_run() processes the scheduled event a suspended role waits for.
DrainEvent(r) ==
    /\ pc = "draining"
    /\ task[r] = "waiting"
    /\ task' = [task EXCEPT ![r] = "resumed"]
    /\ UNCHANGED <<otherVars, pc, role_dict, timeout, cpu_count, wall, overran, last_dir,
                   wtc_dir, nloaded, nsubmitted, queue, ret, processed,
                   final_result, printed, sim_calls, drained, results_yaml,
                   archive, round_failed, exc, result>>

\* ns.sim_run() returns when no scheduled event is left.
DrainReturn ==
    /\ pc = "draining"
    /\ \A r \in Roles : task[r] # "waiting"
    /\ drained' = TRUE
    /\ pc' = "as_completed"
    /\ UNCHANGED <<otherVars, role_dict, timeout, cpu_count, wall, overran, last_dir,
                   wtc_dir, nloaded, nsubmitted, queue, task, ret, processed,
                   final_result, printed, sim_calls, results_yaml, archive,
                   round_failed, exc, result>>

\* One iteration of the as_completed loop (lines 174-180): a finished future
\* is taken; its result is stored under "app_<role>", its exception printed.
AsCompleted(r) ==
    /\ pc = "as_completed"
    /\ r \in Submitted \ processed
    /\ TaskDone(r)
    /\ processed' = processed \cup {r}
    /\ IF task[r] = "returned"
         THEN /\ final_result' = DictSet(final_result, AppKey(r), ret[r])
              /\ printed' = printed
         ELSE /\ final_result' = final_result
              /\ printed' = Append(printed, RoleException(r))
    /\ UNCHANGED <<otherVars, pc, role_dict, timeout, cpu_count, wall, overran, last_dir,
                   wtc_dir, nloaded, nsubmitted, queue, task, ret, sim_calls,
                   drained, results_yaml, archive, round_failed, exc, result>>

\* The loop is exhausted and the with-block is left: as_completed has yielded
\* every future and shutdown(wait=True) has joined every task (lines 170-180).
ExitExecutor ==
    /\ pc = "as_completed"
    /\ processed = Submitted
    /\ \A r \in Submitted : TaskDone(r)
    /\ pc' = "write_results"
    /\ UNCHANGED <<otherVars, role_dict, timeout, cpu_count, wall, overran, last_dir,
                   wtc_dir, nloaded, nsubmitted, queue, task, ret, processed,
                   final_result, printed, sim_calls, drained, results_yaml,
                   archive, round_failed, exc, result>>

\* yaml.dump([final_result]) into LAST/results.yaml (lines 183-185).
WriteResults ==
    /\ pc = "write_results"
    /\ results_yaml' = <<final_result>>
    /\ pc' = "copy"
    /\ UNCHANGED <<otherVars, role_dict, timeout, cpu_count, wall, overran, last_dir,
                   wtc_dir, nloaded, nsubmitted, queue, task, ret, processed,
                   final_result, printed, sim_calls, drained, archive,
                   round_failed, exc, result>>

\* shutil.copytree(LAST, <timestamp>) (line 188); _run_application returns.
CopyToArchive ==
    /\ pc = "copy"
    /\ archive' = results_yaml
    /\ wtc_dir' = "copied"
    /\ pc' = "convert"
    /\ UNCHANGED <<otherVars, role_dict, timeout, cpu_count, wall, overran, last_dir,
                   nloaded, nsubmitted, queue, task, ret, processed,
                   final_result, printed, sim_calls, drained, results_yaml,
                   round_failed, exc, result>>

\* except Exception (lines 81-85) and the error record (lines 87-88, 92).
Except ==
    /\ pc = "except"
    /\ round_failed' = TRUE
    /\ result' = [kind |-> "error", round_number |-> RoundNumber,
                  exception_type |-> exc.type, message |-> exc.message,
                  raw |-> {}]
    /\ pc' = "returned"
    /\ UNCHANGED <<otherVars, role_dict, timeout, cpu_count, wall, overran, last_dir,
                   wtc_dir, nloaded, nsubmitted, queue, task, ret, processed,
                   final_result, printed, sim_calls, drained, results_yaml,
                   archive, exc>>

\* self.__output_converter.convert(round_number) (lines 89-92), outside the
\* try: the converter reads the raw results of LAST, or raises.
Convert(ok) ==
    /\ pc = "convert"
    /\ IF ok
         THEN /\ result' = [kind |-> "success", round_number |-> RoundNumber,
                            exception_type |-> "", message |-> <<"", 0>>,
                            raw |-> results_yaml[1]]
              /\ pc' = "returned"
              /\ exc' = exc
         ELSE /\ result' = result
              /\ pc' = "escaped"
              /\ exc' = [type |-> "ConvertError", message |-> <<"convert", 0>>]
    /\ UNCHANGED <<otherVars, role_dict, timeout, cpu_count, wall, overran, last_dir,
                   wtc_dir, nloaded, nsubmitted, queue, task, ret, processed,
                   final_result, printed, sim_calls, drained, results_yaml,
                   archive, round_failed>>

(* --------------------------- the role tasks ---------------------------- *)
\* A worker of the pool takes the oldest queued task when the pool has fewer
\* than max_workers busy threads.
TaskStart ==
    /\ queue # <<>>
    /\ Cardinality(Busy) < max_workers
    /\ task' = [task EXCEPT ![Head(queue)] = "running"]
    /\ queue' = Tail(queue)
    /\ UNCHANGED <<otherVars, pc, role_dict, timeout, cpu_count, wall, overran, last_dir,
                   wtc_dir, nloaded, nsubmitted, ret, processed, final_result,
                   printed, sim_calls, drained, results_yaml, archive,
                   round_failed, exc, result>>

\* The role program performs its simulated wait: it schedules an event on the
\* virtual clock and suspends until the drain has processed it.
TaskWait(r) ==
    /\ task[r] = "running"
    /\ task' = [task EXCEPT ![r] = "waiting"]
    /\ UNCHANGED <<otherVars, pc, role_dict, timeout, cpu_count, wall, overran, last_dir,
                   wtc_dir, nloaded, nsubmitted, queue, ret, processed,
                   final_result, printed, sim_calls, drained, results_yaml,
                   archive, round_failed, exc, result>>

\* main() of the role program returns v.
TaskReturn(r, v) ==
    /\ task[r] \in {"running", "resumed"}
    /\ task' = [task EXCEPT ![r] = "returned"]
    /\ ret' = [ret EXCEPT ![r] = v]
    /\ UNCHANGED <<otherVars, pc, role_dict, timeout, cpu_count, wall, overran, last_dir,
                   wtc_dir, nloaded, nsubmitted, queue, processed,
                   final_result, printed, sim_calls, drained, results_yaml,
                   archive, round_failed, exc, result>>

\* The tasks after one of them raised, had the pool cancelled its unfinished
\* siblings: their futures raise as well.
AfterRaiseCancelsSiblings(r) ==
    [s \in Roles |-> IF s = r \/ task[s] \in {"queued", "running", "waiting", "resumed"}
                        THEN "raised" ELSE task[s]]

\* The tasks after one of them raised: the exception is stored in the future
\* of that task and no other task is touched.
AfterRaise(r) == [task EXCEPT ![r] = "raised"]

\* main() of the role program raises.
TaskRaise(r) ==
    /\ task[r] \in {"running", "resumed"}
    /\ task' = AfterRaise(r)
    /\ UNCHANGED <<otherVars, pc, role_dict, timeout, cpu_count, wall, overran, last_dir,
                   wtc_dir, nloaded, nsubmitted, queue, ret, processed,
                   final_result, printed, sim_calls, drained, results_yaml,
                   archive, round_failed, exc, result>>

\* A wall-clock second passes while the engine waits for the role tasks.
Tick ==
    /\ Waiting
    /\ wall < MaxWall
    /\ wall' = wall + 1
    /\ overran' = (overran \/ (/\ timeout # NoTimeout
                               /\ wall + 1 >= timeout
                               /\ \E r \in Roles : ~(task[r] \in {"returned", "raised"})))
    /\ UNCHANGED <<otherVars, pc, role_dict, timeout, cpu_count, last_dir, wtc_dir,
                   nloaded, nsubmitted, queue, task, ret, processed,
                   final_result, printed, sim_calls, drained, results_yaml,
                   archive, round_failed, exc, result>>

(* ------------------------------- Next ---------------------------------- *)
Timeouts == {NoTimeout} \cup (1..MaxTimeout)

EngineStep ==
    \/ \E t \in Timeouts : Process(t)
    \/ \E ok \in BOOLEAN : PrepareInput(ok)
    \/ \E ok \in BOOLEAN : PrepareOutput(ok)
    \/ StageOutput
    \/ \E ok \in BOOLEAN : LoadRole(ok)
    \/ Submit
    \/ SimRunCall
    \/ DrainReturn
    \/ \E r \in Roles : AsCompleted(r)
    \/ ExitExecutor
    \/ WriteResults
    \/ CopyToArchive
    \/ Except
    \/ \E ok \in BOOLEAN : Convert(ok)

Next ==
    \/ EngineStep
    \/ \E r \in Roles : DrainEvent(r)
    \/ TaskStart
    \/ \E r \in Roles : TaskWait(r)
    \/ \E r \in Roles, v \in Values : TaskReturn(r, v)
    \/ \E r \in Roles : TaskRaise(r)
    \/ Tick

Spec == Init /\ [][Next]_vars

(* ----------------------- the pool specification ------------------------ *)
\* A round of PoolRoles roles whose programs return without a simulated wait:
\* the behaviours of the engine that show how the default pool schedules a
\* role table larger than the pool.
InitPool ==
    /\ role_dict = RoleTable(PoolRoles)
    /\ cpu_count \in 1..MaxCpus
    /\ InitRest
    /\ NetIdle
    /\ DistIdle
    /\ LogIdle
    /\ RestIdle

NextPool ==
    \/ EngineStep
    \/ TaskStart
    \/ \E r \in Roles : TaskReturn(r, "v0")

SpecPool == InitPool /\ [][NextPool]_vars

(* --------------------------- link_distance ----------------------------- *)
\* Coordinates in whole degrees on a grid where the haversine terms are
\* rational: latitudes and longitudes are multiples of 60 degrees.
Latitudes == {-60, 0, 60}
Longitudes == {-120, -60, 0, 60, 120, 180}
Grid == Latitudes \X Longitudes

\* 4 * sin(d / 2) ** 2 for a difference d of a multiple of 60 degrees.
SinSqHalf4(d) ==
    LET m == d % 360
    IN  IF m = 0 THEN 0
        ELSE IF m \in {60, 300} THEN 1
        ELSE IF m \in {120, 240} THEN 3
        ELSE 4

\* 2 * cos(lat) for a latitude of -60, 0 or 60 degrees.
Cos2(lat) == IF lat = 0 THEN 2 ELSE 1

\* The latitude factor taken from the first node alone.
CosProductOfFirst(lat1, lat2) == Cos2(lat1) * Cos2(lat1)

\* 4 * math.cos(lat1) * math.cos(lat2) (line 201).
CosProduct(lat1, lat2) == Cos2(lat1) * Cos2(lat2)

\* 16 * a of the haversine formula (lines 199-201):
\* a = sin(dlat / 2) ** 2 + cos(lat1) * cos(lat2) * sin(dlon / 2) ** 2.
HaversineA16(one, two) ==
    LET dlat == two[1] - one[1]
        dlon == two[2] - one[2]
    IN  4 * SinSqHalf4(dlat) + CosProduct(one[1], two[1]) * SinSqHalf4(dlon)

\* c * r with c = 2 * atan2(sqrt(a), sqrt(1 - a)) and r = 6371.0, rounded to
\* whole kilometres, for a = k / 16 (lines 202-204).
KmOfA16 == <<0, 3220, 4605, 5706, 6672, 7559, 8398, 9209, 10008, 10806, 11617,
             12457, 13343, 14309, 15411, 16795, 20015>>

\* math.sqrt(1 - a) raises ValueError (math domain error) when a > 1.
MathDomainError == -2

\* link_distance(node_one_coords, node_two_coords) (lines 173-204).
link_distance(one, two) ==
    IF HaversineA16(one, two) > 16
        THEN MathDomainError
        ELSE KmOfA16[HaversineA16(one, two) + 1]

\* link_distance(coords_one, coords_two) is called.
DistanceForward ==
    /\ distance_fwd = NoDistance
    /\ distance_fwd' = link_distance(coords_one, coords_two)
    /\ UNCHANGED <<engineVars, netVars, logVars, restVars, coords_one, coords_two, distance_bwd>>

\* link_distance(coords_two, coords_one) is called.
DistanceBackward ==
    /\ distance_bwd = NoDistance
    /\ distance_bwd' = link_distance(coords_two, coords_one)
    /\ UNCHANGED <<engineVars, netVars, logVars, restVars, coords_one, coords_two, distance_fwd>>

\* The engine of a round is not running.
EngineIdle ==
    /\ role_dict = RoleTable(1)
    /\ cpu_count = 1
    /\ InitRest
    /\ last_dir = "absent"
    /\ wtc_dir = "absent"

InitDist ==
    /\ coords_one \in Grid
    /\ coords_two \in Grid
    /\ distance_fwd = NoDistance
    /\ distance_bwd = NoDistance
    /\ EngineIdle
    /\ NetIdle
    /\ LogIdle
    /\ RestIdle

NextDist == DistanceForward \/ DistanceBackward

SpecDist == InitDist /\ [][NextDist]_vars

(* ------------------ create_netsquid_fully_connected_network ------------ *)
\* Node slugs of the assets.
Slugs == {1, 2}

\* The node_parameters of a node template:
\*   "absent"    the template has no node_parameters key,
\*   "no_values" a parameter whose values list is empty,
\*   "empty"     node_parameters is an empty list (no noise parameter given),
\*   "det_eff"   the single parameter det_eff.
ParamKinds == {"absent", "no_values", "empty", "det_eff"}

\* A template without coordinates.
NoCoords == <<>>

\* Coordinates (latitude, longitude) of the node templates.
OriginCoords == <<0, 0>>
FarCoords == <<60, 120>>

\* The entries of the node-template catalog.
NodeTemplates ==
    [slug : Slugs, params : ParamKinds, coordinates : {NoCoords, FarCoords}]
    \cup [slug : Slugs, params : {"empty", "det_eff"}, coordinates : {OriginCoords}]

\* A channel template: its slug "<a>-<b>" and whether its parameters are
\* keyword arguments FibreLossModel accepts.
ChannelTemplates == [slug : {<<1, 2>>, <<2, 1>>, <<1, 1>>}, valid : BOOLEAN]

Catalogs(T) == UNION {[1..n -> T] : n \in 0..MaxCatalog}

Min(S) == CHOOSE x \in S : \A y \in S : x <= y

\* Index of the first entry of node_properties whose slug is the slug, 0 when
\* there is none: the inner loop of lines 230-234 stops at the first match.
NodeTemplateOf(slug) ==
    LET M == {i \in DOMAIN node_properties : node_properties[i].slug = slug}
    IN  IF M = {} THEN 0 ELSE Min(M)

\* Index of the first entry of channel_properties whose slug is "<s1>-<s2>"
\* or "<s2>-<s1>", 0 when there is none (lines 243-254).
ChannelTemplateOf(s1, s2) ==
    LET M == {i \in DOMAIN channel_properties :
                 channel_properties[i].slug \in {<<s1, s2>>, <<s2, s1>>}}
    IN  IF M = {} THEN 0 ELSE Min(M)

\* create_processor (lines 125-170): the parameters dict is built outside the
\* try blocks; BSMNoiseModel(**parameters) and DepolarNoiseModel(**parameters)
\* fall back to det_eff = 1 and depolar_rate = 0 when they raise.
create_processor(template) ==
    IF template.params = "absent"
        THEN [raised |-> "KeyError", det_eff |-> "", depolar_rate |-> ""]
    ELSE IF template.params = "no_values"
        THEN [raised |-> "IndexError", det_eff |-> "", depolar_rate |-> ""]
    ELSE IF template.params = "det_eff"
        THEN [raised |-> "", det_eff |-> "template", depolar_rate |-> "zero"]
    ELSE [raised |-> "", det_eff |-> "one", depolar_rate |-> "zero"]

\* combinations(netsquid_nodes, 2): the pairs of positions, in order.
PairsOf(n) == {p \in (1..n) \X (1..n) : p[1] < p[2]}

PairBefore(p, q) == p[1] < q[1] \/ (p[1] = q[1] /\ p[2] < q[2])

PairAt(n, k) ==
    CHOOSE p \in PairsOf(n) :
        Cardinality({q \in PairsOf(n) : PairBefore(q, p)}) = k - 1

NumPairs(n) == Cardinality(PairsOf(n))

\* One iteration of the loop over role_dict (lines 229-234): the node of the
\* role is built from the first template with its slug; a role without such
\* a template is passed over.
CreateNode ==
    /\ net_pc = "nodes"
    /\ net_i <= Len(role_dict)
    /\ LET role == role_dict[net_i]
           t == NodeTemplateOf(role_slug[role])
       IN  IF t = 0
             THEN /\ net_i' = net_i + 1
                  /\ UNCHANGED <<net_pc, netsquid_nodes, net_exc>>
           ELSE IF create_processor(node_properties[t]).raised # ""
             THEN /\ net_pc' = "raised"
                  /\ net_exc' = [type |-> create_processor(node_properties[t]).raised,
                                 origin |-> "create_processor"]
                  /\ UNCHANGED <<net_i, netsquid_nodes>>
           ELSE /\ netsquid_nodes' = Append(netsquid_nodes,
                       [role |-> role, template |-> t,
                        det_eff |-> create_processor(node_properties[t]).det_eff,
                        depolar_rate |-> create_processor(node_properties[t]).depolar_rate])
                /\ net_i' = net_i + 1
                /\ UNCHANGED <<net_pc, net_exc>>
    /\ UNCHANGED <<engineVars, distVars, logVars, restVars, role_slug, node_properties,
                   channel_properties, clinks, qlinks>>

\* The loop over the roles is exhausted; the loop over the pairs starts.
NodesDone ==
    /\ net_pc = "nodes"
    /\ net_i > Len(role_dict)
    /\ net_pc' = "links"
    /\ net_i' = 1
    /\ UNCHANGED <<engineVars, distVars, logVars, restVars, role_slug, node_properties,
                   channel_properties, netsquid_nodes, clinks, qlinks, net_exc>>

\* One iteration of the loop over the pairs of nodes (lines 236-255): the
\* coordinates are read and the distance computed, the first matching
\* channel template gives a quantum link, and the classical link follows.
ConnectPair ==
    /\ net_pc = "links"
    /\ net_i <= NumPairs(Len(netsquid_nodes))
    /\ LET p == PairAt(Len(netsquid_nodes), net_i)
           node1 == netsquid_nodes[p[1]]
           node2 == netsquid_nodes[p[2]]
           t1 == node_properties[node1.template]
           t2 == node_properties[node2.template]
           c == ChannelTemplateOf(t1.slug, t2.slug)
           distance == link_distance(t1.coordinates, t2.coordinates)
       IN  IF t1.coordinates = NoCoords \/ t2.coordinates = NoCoords
             THEN /\ net_pc' = "raised"
                  /\ net_exc' = [type |-> "KeyError", origin |-> "coordinates"]
                  /\ UNCHANGED <<net_i, clinks, qlinks>>
           ELSE IF c # 0 /\ ~channel_properties[c].valid
             THEN /\ net_pc' = "raised"
                  /\ net_exc' = [type |-> "TypeError", origin |-> "create_qlink"]
                  /\ UNCHANGED <<net_i, clinks, qlinks>>
           ELSE /\ qlinks' = IF c = 0 THEN qlinks
                             ELSE Append(qlinks, [one |-> node1.role, two |-> node2.role,
                                                  length |-> distance, channel |-> c])
                /\ clinks' = Append(clinks, [one |-> node1.role, two |-> node2.role,
                                             length |-> distance])
                /\ net_i' = net_i + 1
                /\ UNCHANGED <<net_pc, net_exc>>
    /\ UNCHANGED <<engineVars, distVars, logVars, restVars, role_slug, node_properties,
                   channel_properties, netsquid_nodes>>

\* return netsquid_nodes (line 257).
ReturnNetwork ==
    /\ net_pc = "links"
    /\ net_i > NumPairs(Len(netsquid_nodes))
    /\ net_pc' = "returned"
    /\ UNCHANGED <<engineVars, distVars, logVars, restVars, role_slug, node_properties,
                   channel_properties, net_i, netsquid_nodes, clinks, qlinks,
                   net_exc>>

InitNet ==
    /\ \E n \in 2..MaxNetRoles : /\ role_dict = RoleTable(n)
                                 /\ role_slug \in [1..n -> Slugs]
    /\ node_properties \in Catalogs(NodeTemplates)
    /\ channel_properties \in Catalogs(ChannelTemplates)
    /\ net_pc = "nodes"
    /\ net_i = 1
    /\ netsquid_nodes = <<>>
    /\ clinks = <<>>
    /\ qlinks = <<>>
    /\ net_exc = [type |-> "", origin |-> ""]
    /\ cpu_count = 1
    /\ InitRest
    /\ last_dir = "absent"
    /\ wtc_dir = "absent"
    /\ DistIdle
    /\ LogIdle
    /\ RestIdle

NextNet == CreateNode \/ NodesDone \/ ConnectPair \/ ReturnNetwork

SpecNet == InitNet /\ [][NextNet]_vars

(* ------------------------- VanillaNetSquidLogger ----------------------- *)
\* The log_type arguments: the three category tags and one other string.
LogTypes == {"node-log", "clink-log", "qlink-log", "debug"}

\* The sender / receiver argument left at its default None.
NoParty == 0

\* The sender / receiver arguments: None or the name of a role.
Parties == {NoParty} \cup LogRoles

\* The sim_time arguments.
SimTimes == {0, 1}

\* The stream an entry of the tag goes to, "none" when there is none: the
\* if / elif chain of lines 65-81.  Mutant: a qlink-log entry goes to the
\* classical stream.
StreamOfQlinkAsClink(log_type) ==
    IF log_type = "node-log" THEN "instrs"
    ELSE IF log_type \in {"clink-log", "qlink-log"} THEN "clink"
    ELSE "none"

StreamOf(log_type) ==
    IF log_type = "node-log" THEN "instrs"
    ELSE IF log_type = "clink-log" THEN "clink"
    ELSE IF log_type = "qlink-log" THEN "qlink"
    ELSE "none"

\* f"{sender_node}-{receiver_node}" (line 89).
PathKey(sender_node, receiver_node) == <<sender_node, "-", receiver_node>>

\* The entries of lines 66-71, 73-80 and 84-90 (INS, LOG and the value are
\* copied from the arguments and left out).
NodeEntry(sim_time) == [WCT |-> sim_time]

ClinkEntry(sim_time, sender, receiver) ==
    [WCT |-> sim_time, SEN |-> sender, REC |-> receiver]

QlinkEntry(sim_time, sender_node, receiver_node) ==
    [WCT |-> sim_time, NOD |-> <<sender_node, receiver_node>>,
     PTH |-> PathKey(sender_node, receiver_node)]

\* The keys of role_mappings = role_dict.
MappedRoles == DOMAIN role_slug

\* What self.role_mappings[name] gives for a name that is not a key.
KeyError == -1

\* self.role_mappings.get(name): None for a name that is not a key.
role_mappings_get(name) ==
    IF name \in MappedRoles THEN role_slug[name] ELSE NoParty

\* self.role_mappings[name] (lines 82-83).
role_mappings_item(name) ==
    IF name \in MappedRoles THEN role_slug[name] ELSE KeyError

\* add_log_command (lines 22-90) on the logger of a role.  The sender and the
\* receiver are looked up in role_mappings only for a qlink-log entry; the
\* lookup of a name that is not a role raises KeyError before the append.
add_log_command(role, log_type, sim_time, sender, receiver) ==
    /\ log_round >= 1
    /\ round_pc = "running"
    /\ ~finished[role]
    /\ ncalls < MaxLogs
    /\ log_type \in {"node-log", "debug"} => (sender = NoParty /\ receiver = NoParty)
    /\ ncalls' = ncalls + 1
    /\ LET stream == StreamOf(log_type)
           sender_node == role_mappings_item(sender)
           receiver_node == role_mappings_item(receiver)
           unmapped == stream = "qlink"
                       /\ (sender_node = KeyError \/ receiver_node = KeyError)
       IN  /\ instrs_logs' =
                 IF stream = "instrs"
                     THEN [instrs_logs EXCEPT ![role] = Append(@, NodeEntry(sim_time))]
                     ELSE instrs_logs
           /\ clink_logs' =
                 IF stream = "clink"
                     THEN [clink_logs EXCEPT
                              ![role] = Append(@, ClinkEntry(sim_time, sender, receiver))]
                     ELSE clink_logs
           /\ qlink_logs' =
                 IF stream = "qlink" /\ ~unmapped
                     THEN [qlink_logs EXCEPT
                              ![role] = Append(@, QlinkEntry(sim_time, sender_node,
                                                             receiver_node))]
                     ELSE qlink_logs
           /\ last_call' = [op |-> "add", role |-> role, log_type |-> log_type,
                            sender |-> sender, receiver |-> receiver,
                            raised |-> IF unmapped THEN "KeyError" ELSE ""]
    /\ UNCHANGED <<engineVars, netVars, distVars, restVars, instr_file, clink_file,
                   network_log, finished, log_round, round_pc, wtc_copy,
                   results_file, wtc_results>>

\* finish_logging (lines 92-110): a non-empty stream is written to its file,
\* the node and classical files in mode 'w', the shared network log in mode
\* 'a'; the streams are not cleared.
\* network_log.yaml after a finish_logging that writes the quantum-link
\* stream only at the logger's first call.
network_log_written_once(role) ==
    IF finished[role] THEN network_log ELSE network_log \o qlink_logs[role]

\* network_log.yaml after lines 102-105: the whole quantum-link stream of the
\* logger is appended to it.
network_log_appended(role) == network_log \o qlink_logs[role]

write_log_files(role) ==
    /\ instr_file' = IF instrs_logs[role] # <<>>
                        THEN [instr_file EXCEPT ![role] = instrs_logs[role]]
                        ELSE instr_file
    /\ network_log' = network_log_appended(role)
    /\ clink_file' = IF clink_logs[role] # <<>>
                        THEN [clink_file EXCEPT ![role] = clink_logs[role]]
                        ELSE clink_file
    /\ finished' = [finished EXCEPT ![role] = TRUE]
    /\ last_call' = [NoCall EXCEPT !.op = "finish", !.role = role]
    /\ UNCHANGED <<engineVars, netVars, distVars, restVars, instrs_logs, clink_logs,
                   qlink_logs, log_round, ncalls, round_pc, wtc_copy,
                   results_file, wtc_results>>

\* The call of finish_logging that a role program makes at its end.
finish_logging(role) ==
    /\ log_round >= 1
    /\ round_pc = "running"
    /\ ~finished[role]
    /\ write_log_files(role)

\* A further call of finish_logging on a logger that was finished before,
\* with no add_log_command since.
finish_logging_again(role) ==
    /\ log_round >= 1
    /\ round_pc = "running"
    /\ finished[role]
    /\ Len(network_log) + Len(qlink_logs[role]) <= MaxNetworkEntries
    /\ write_log_files(role)

\* The log files of raw_output/LAST.
LastLogs == [instr |-> instr_file, clink |-> clink_file, network |-> network_log]

\* shutil.copytree that copies nothing.
copytreeNothing(src, dst) == dst

\* shutil.copytree(src, dst, dirs_exist_ok=True) into the timestamp directory
\* that line 137 created empty: dst holds a copy of what src holds.
copytree(src, dst) == <<src>>

\* The round comes to its end (_run_application lines 183-188): the role
\* tasks have finished, the collected results are dumped into
\* LAST/results.yaml and shutil.copytree copies LAST, log files included,
\* into the timestamp directory of the round.
CopyLast(v) ==
    /\ log_round >= 1
    /\ round_pc = "running"
    /\ round_pc' = "copied"
    /\ results_file' = <<v>>
    /\ wtc_copy' = copytree(LastLogs, wtc_copy)
    /\ wtc_results' = copytree(v, wtc_results)
    /\ last_call' = [NoCall EXCEPT !.op = "copy"]
    /\ UNCHANGED <<engineVars, netVars, distVars, restVars, instrs_logs, clink_logs,
                   qlink_logs, instr_file, clink_file, network_log, finished,
                   log_round, ncalls>>

\* The round fails: ns.sim_run() (line 172) or the write of results.yaml
\* (lines 183-185) raises, the exception leaves _run_application before
\* line 188 and process() turns it into an error record.
RoundRaises ==
    /\ log_round >= 1
    /\ round_pc = "running"
    /\ round_pc' = "failed"
    /\ last_call' = [NoCall EXCEPT !.op = "raise"]
    /\ UNCHANGED <<engineVars, netVars, distVars, restVars, instrs_logs, clink_logs,
                   qlink_logs, instr_file, clink_file, network_log, finished,
                   log_round, ncalls, wtc_copy, results_file, wtc_results>>

\* The per-role files of a directory that shutil.rmtree did not remove.
rmtreeKeepsFiles(files) == files

\* The per-role files of a directory after shutil.rmtree and mkdir: none.
rmtree(files) == [r \in LogRoles |-> <<>>]

\* The start of the next round (_run_application lines 129-141 and 161):
\* raw_output/LAST is removed with every file in it and created again empty,
\* a new and empty timestamp directory is made, and every role gets a new
\* logger.
StartRound ==
    /\ log_round >= 1
    /\ log_round < MaxRounds
    /\ round_pc # "running"
    /\ log_round' = log_round + 1
    /\ round_pc' = "running"
    /\ wtc_copy' = <<>>
    /\ results_file' = <<>>
    /\ wtc_results' = <<>>
    /\ instrs_logs' = [r \in LogRoles |-> <<>>]
    /\ clink_logs' = [r \in LogRoles |-> <<>>]
    /\ qlink_logs' = [r \in LogRoles |-> <<>>]
    /\ instr_file' = rmtree(instr_file)
    /\ clink_file' = rmtree(clink_file)
    /\ network_log' = <<>>
    /\ finished' = [r \in LogRoles |-> FALSE]
    /\ ncalls' = 0
    /\ last_call' = [NoCall EXCEPT !.op = "start"]
    /\ UNCHANGED <<engineVars, netVars, distVars, restVars>>

\* The first round has created the loggers of "Sender" (node n1) and
\* "Receiver" (node n2) in an empty LAST directory.
InitLog ==
    /\ RestIdle
    /\ FreshLogs
    /\ log_round = 1
    /\ EngineIdle
    /\ role_slug = [r \in LogRoles |-> r]
    /\ NetRest
    /\ DistIdle

NextLog ==
    \/ \E role \in LogRoles, log_type \in LogTypes, sim_time \in SimTimes,
          sender \in Parties, receiver \in Parties :
           add_log_command(role, log_type, sim_time, sender, receiver)
    \/ \E role \in LogRoles : finish_logging(role)
    \/ \E v \in Values : CopyLast(v)
    \/ RoundRaises
    \/ StartRound

SpecLog == InitLog /\ [][NextLog]_vars

\* One round of loggers whose role programs may call finish_logging more
\* than once.
NextFinish ==
    \/ \E role \in LogRoles, log_type \in LogTypes, sim_time \in SimTimes,
          sender \in Parties, receiver \in Parties :
           add_log_command(role, log_type, sim_time, sender, receiver)
    \/ \E role \in LogRoles : finish_logging(role)
    \/ \E role \in LogRoles : finish_logging_again(role)

SpecFinish == InitLog /\ [][NextFinish]_vars

(* -------------- finish_logging of several roles at once ---------------- *)
\* The quantum-link streams a role can hold when it calls finish_logging:
\* up to MaxFlushEntries entries naming the role as sender and the other
\* role as receiver.
FlushStreams(role) ==
    LET other == CHOOSE r \in LogRoles : r # role
        Entries == {QlinkEntry(t, role_slug[role], role_slug[other]) : t \in SimTimes}
    IN  UNION {[1..n -> Entries] : n \in 1..MaxFlushEntries}

\* yaml.dump([item], file) for every item (lines 104-105): the text of an
\* entry reaches the buffered file object in pieces, here two per entry.
EntryText(stream) ==
    [i \in 1..(2 * Len(stream)) |-> <<stream[(i + 1) \div 2], 2 - (i % 2)>>]

\* open(self.qlink_log_file, 'a') (lines 102-103): every role opens its own
\* buffered file object on the shared file; there is no lock.
OpenNetworkLog(role) ==
    /\ flush_pc[role] = "idle"
    /\ qlink_logs[role] # <<>>
    /\ flush_pc' = [flush_pc EXCEPT ![role] = "open"]
    /\ UNCHANGED <<engineVars, netVars, distVars, logVars, apiVars, managerVars,
                   flush_written, network_bytes>>

\* The buffer of the role's file object is full while text is still to come:
\* the n pieces it holds are appended to the file in one write.  Where the
\* buffer fills depends on the byte length of the entries, so n is any number
\* of pieces short of the whole rest.
BufferFull(role, n) ==
    /\ flush_pc[role] = "open"
    /\ n >= 1
    /\ flush_written[role] + n < Len(EntryText(qlink_logs[role]))
    /\ network_bytes' = network_bytes \o
           SubSeq(EntryText(qlink_logs[role]), flush_written[role] + 1,
                  flush_written[role] + n)
    /\ flush_written' = [flush_written EXCEPT ![role] = @ + n]
    /\ UNCHANGED <<engineVars, netVars, distVars, logVars, apiVars, managerVars, flush_pc>>

\* The end of the with-block (line 105): close() appends what is left in the
\* buffer in one write.
CloseNetworkLog(role) ==
    /\ flush_pc[role] = "open"
    /\ network_bytes' = network_bytes \o
           SubSeq(EntryText(qlink_logs[role]), flush_written[role] + 1,
                  Len(EntryText(qlink_logs[role])))
    /\ flush_written' = [flush_written EXCEPT ![role] = Len(EntryText(qlink_logs[role]))]
    /\ flush_pc' = [flush_pc EXCEPT ![role] = "closed"]
    /\ UNCHANGED <<engineVars, netVars, distVars, logVars, apiVars, managerVars>>

\* Both role programs of a round are about to call finish_logging, each with
\* quantum-link entries in its stream.
InitFlush ==
    /\ EngineIdle
    /\ role_slug = [r \in LogRoles |-> r]
    /\ NetRest
    /\ DistIdle
    /\ instrs_logs = [r \in LogRoles |-> <<>>]
    /\ clink_logs = [r \in LogRoles |-> <<>>]
    /\ qlink_logs \in [LogRoles -> UNION {FlushStreams(r) : r \in LogRoles}]
    /\ \A r \in LogRoles : qlink_logs[r] \in FlushStreams(r)
    /\ instr_file = [r \in LogRoles |-> <<>>]
    /\ clink_file = [r \in LogRoles |-> <<>>]
    /\ network_log = <<>>
    /\ finished = [r \in LogRoles |-> FALSE]
    /\ ncalls = 0
    /\ last_call = NoCall
    /\ round_pc = "running"
    /\ wtc_copy = <<>>
    /\ results_file = <<>>
    /\ wtc_results = <<>>
    /\ log_round = 1
    /\ FlushIdle
    /\ ApiIdle
    /\ ManagerIdle

NextFlush ==
    \/ \E role \in LogRoles : OpenNetworkLog(role)
    \/ \E role \in LogRoles, n \in 1..(2 * MaxFlushEntries) : BufferFull(role, n)
    \/ \E role \in LogRoles : CloseNetworkLog(role)

SpecFlush == InitFlush /\ [][NextFlush]_vars

(* ------------------------------ LocalApi ------------------------------- *)
\* What the API never touches.
simVars == <<engineVars, netVars, distVars, logVars, flushVars, managerVars>>

\* config_manager.application_exists(application_name): the name is one of
\* the names registered in the configuration.
application_exists(application_name) == application_name \in registered

\* __is_application_unique without its negation.
is_application_unique_NotNegated(application_name) ==
    application_exists(application_name)

\* __is_application_unique (lines 104-117): not application_exists.
is_application_unique(application_name) == ~application_exists(application_name)

\* Lines 79-83 without the comparison of line 80: some network is known.
HasNetworkOfAnySize(nroles) == networks # {}

\* Lines 79-83: some known network has at least as many nodes as there are
\* roles.
HasNetwork(nroles) == \E n \in networks : nroles <= n

\* Line 279 testing for the experiment.json instead of the directory.
experiment_has_json(name) == exp_json[name] # 0

\* experiment_directory.is_dir() (line 279).
experiment_is_dir(name) == exp_entry[name] = "dir"

\* get_experiment_rounds (lines 348-359) returns 1 for every path.
get_experiment_rounds(name) == 1

\* The messages the API returns.
ExperimentExists(name) == <<"Experiment directory ", name, " already exists.">>
Success == <<"Success">>
ExperimentJsonNotFound ==
    <<"File experiment.json not found in the current working directory">>

\* What roundSetManager.validate_asset(path) can return.
AssetValidations == {<<TRUE, <<"ok">>>>, <<FALSE, <<"invalid asset">>>>}

\* What validate_experiment returns when the asset validation returned v,
\* had it reported every experiment with an experiment.json as valid.
ValidatedAsOk(v) == <<TRUE, <<"ok">>>>

\* What validate_experiment returns when the asset validation returned v
\* (line 405).
Validated(v) == v

\* create_application is called (line 23).
CreateApplication(application_name, nroles) ==
    /\ api_pc = "idle"
    /\ api_ncalls < MaxApiCalls
    /\ api_ncalls' = api_ncalls + 1
    /\ api_call' = [NoApiCall EXCEPT !.op = "create_application",
                                     !.name = application_name,
                                     !.nroles = nroles]
    /\ api_pc' = "check_config"
    /\ UNCHANGED <<simVars, app_dir, config_exists, registered, app_entry, networks,
                   exp_entry, exp_input, exp_json, no_network_names>>

\* Lines 37-38: the configuration is created, empty, when it does not exist.
CheckConfig ==
    /\ api_pc = "check_config"
    /\ config_exists' = TRUE
    /\ registered' = IF config_exists THEN registered ELSE {}
    /\ api_pc' = "is_unique"
    /\ UNCHANGED <<simVars, app_dir, app_entry, networks, exp_entry, exp_input,
                   exp_json, api_call, api_ncalls, no_network_names>>

\* Lines 40-44: a name that is not unique raises ApplicationAlreadyExists.
CheckUnique ==
    /\ api_pc = "is_unique"
    /\ IF is_application_unique(api_call.name)
         THEN /\ api_pc' = "structure"
              /\ api_call' = api_call
         ELSE /\ api_pc' = "idle"
              /\ api_call' = [api_call EXCEPT !.raised = "ApplicationAlreadyExists"]
    /\ UNCHANGED <<simVars, app_dir, config_exists, registered, app_entry, networks,
                   exp_entry, exp_input, exp_json, api_ncalls,
                   no_network_names>>

\* __create_application_structure (lines 49-102): the directories and the
\* role files are made; without a network of enough nodes the application
\* directory is removed again and NoNetworkAvailable raised; otherwise the
\* configuration files are written and the application is registered.
CreateApplicationStructure ==
    /\ api_pc = "structure"
    /\ api_pc' = "idle"
    /\ IF HasNetwork(api_call.nroles)
         THEN /\ app_entry' = [app_entry EXCEPT ![api_call.name] = "dir"]
              /\ registered' = registered \cup {api_call.name}
              /\ no_network_names' = no_network_names \ {api_call.name}
              /\ api_call' = [api_call EXCEPT !.structure_calls = @ + 1]
         ELSE /\ app_entry' = [app_entry EXCEPT ![api_call.name] = "absent"]
              /\ registered' = registered
              /\ no_network_names' = no_network_names \cup {api_call.name}
              /\ api_call' = [api_call EXCEPT !.structure_calls = @ + 1,
                                              !.raised = "NoNetworkAvailable"]
    /\ UNCHANGED <<simVars, app_dir, config_exists, networks, exp_entry, exp_input,
                   exp_json, api_ncalls>>

\* create_experiment (lines 274-304).
CreateExperiment(name) ==
    /\ api_pc = "idle"
    /\ api_ncalls < MaxApiCalls
    /\ api_ncalls' = api_ncalls + 1
    /\ IF experiment_is_dir(name)
         THEN /\ api_call' = [NoApiCall EXCEPT
                                 !.op = "create_experiment", !.name = name,
                                 !.ret = <<FALSE, ExperimentExists(name)>>]
              /\ UNCHANGED <<exp_entry, exp_input, exp_json>>
         ELSE /\ exp_entry' = [exp_entry EXCEPT ![name] = "dir"]
              /\ exp_input' = [exp_input EXCEPT ![name] = TRUE]
              /\ exp_json' = [exp_json EXCEPT ![name] = 1]
              /\ api_call' = [NoApiCall EXCEPT
                                 !.op = "create_experiment", !.name = name,
                                 !.json_writes = 1,
                                 !.ret = <<TRUE, Success>>]
    /\ UNCHANGED <<simVars, app_dir, config_exists, registered, app_entry, networks,
                   api_pc, no_network_names>>

\* validate_experiment (lines 389-405); v is what the asset validation
\* returns if it is called.
ValidateExperiment(name, v) ==
    /\ api_pc = "idle"
    /\ api_ncalls < MaxApiCalls
    /\ api_ncalls' = api_ncalls + 1
    /\ IF exp_json[name] = 0
         THEN api_call' = [NoApiCall EXCEPT
                              !.op = "validate_experiment", !.name = name,
                              !.ret = <<FALSE, ExperimentJsonNotFound>>]
         ELSE api_call' = [NoApiCall EXCEPT
                              !.op = "validate_experiment", !.name = name,
                              !.validations = 1,
                              !.asset_result = v,
                              !.ret = Validated(v)]
    /\ UNCHANGED <<simVars, app_dir, config_exists, registered, app_entry, networks,
                   exp_entry, exp_input, exp_json, api_pc, no_network_names>>

\* get_results (lines 374-387) on an experiment that has an experiment.json:
\* one converter call per round number of the loop, or one for the last
\* round.
GetResults(name, all_results) ==
    /\ api_pc = "idle"
    /\ api_ncalls < MaxApiCalls
    /\ exp_json[name] >= 1
    /\ api_ncalls' = api_ncalls + 1
    /\ LET total_rounds == get_experiment_rounds(name)
       IN  api_call' = [NoApiCall EXCEPT
                           !.op = "get_results", !.name = name,
                           !.all_results = all_results,
                           !.converted = IF all_results
                                           THEN [i \in 1..total_rounds |-> i]
                                           ELSE <<total_rounds>>]
    /\ UNCHANGED <<simVars, app_dir, config_exists, registered, app_entry, networks,
                   exp_entry, exp_input, exp_json, api_pc, no_network_names>>

\* The network names a caller asks for, and utils.get_network_slug: the name
\* in lower case with hyphens for blanks.
NetworkNames == {<<"Randstad">>, <<"The", "Netherlands">>}
NetworkSlugs == {"randstad", "the-netherlands", "europe"}
get_network_slug(network_name) ==
    IF network_name = <<"Randstad">> THEN "randstad" ELSE "the-netherlands"

\* is_network_available (lines 322-333): the body is the docstring and
\* "return True"; neither argument is read.
IsNetworkAvailable(network_name, listed) ==
    /\ api_pc = "idle"
    /\ api_ncalls < MaxApiCalls
    /\ api_ncalls' = api_ncalls + 1
    /\ api_call' = [NoApiCall EXCEPT
                        !.op = "is_network_available", !.name = network_name,
                        !.app_networks = listed,
                        !.available = TRUE]
    /\ UNCHANGED <<simVars, app_dir, config_exists, registered, app_entry, networks,
                   exp_entry, exp_input, exp_json, api_pc, no_network_names>>

ApplicationDoesNotExist == <<"Application does not exist">>
StructureWarning == <<"should contain a 'MANIFEST.ini', 'src' directory and 'config' directory">>
ConfigWarning == <<"should contain the files 'network.json', result.json' and 'application.json'">>
RolesWarning == <<"Not all the the roles in application.json match with the file names in src">>
JsonMessage(file) == <<"validate_json_file", file>>
SchemaMessage(file) == <<"validate_json_schema", file>>

\* __is_structure_valid (lines 176-221).
is_structure_valid(f, error_dict) ==
    LET w1 == IF ~f.config \/ ~f.src \/ ~f.manifest
                  THEN <<StructureWarning>> ELSE <<>>
        w2 == IF f.config /\ \E i \in 1..3 : f.json[i] = "absent"
                  THEN <<ConfigWarning>> ELSE <<>>
        checked == f.src /\ f.json[1] # "absent"
        w3 == IF checked /\ f.json[1] # "invalid" /\ ~f.roles_match
                  THEN <<RolesWarning>> ELSE <<>>
        e  == IF checked /\ f.json[1] = "invalid"
                  THEN <<JsonMessage(ConfigFiles[1])>> ELSE <<>>
    IN  [error_dict EXCEPT !.warning = @ \o w1 \o w2 \o w3,
                           !.error = @ \o e]

\* __is_config_valid (lines 155-174): the files of config in the order of
\* files_list; application.json that is not json was reported by the
\* structure validation and is passed over here.
ConfigErrorOf(f, i) ==
    CASE f.json[i] = "schema_invalid" -> <<SchemaMessage(ConfigFiles[i])>>
      [] f.json[i] = "invalid" /\ i # 1 -> <<JsonMessage(ConfigFiles[i])>>
      [] OTHER -> <<>>

is_config_valid(f, error_dict) ==
    [error_dict EXCEPT !.error = @ \o ConfigErrorOf(f, 1) \o ConfigErrorOf(f, 2)
                                     \o ConfigErrorOf(f, 3)]

\* Lines 149-151 with the structure validation left out.
ConfigValidationOnly(f, error_dict) == is_config_valid(f, error_dict)

\* Lines 149-151: the structure validation, then the config validation on
\* the dictionary it returned.
StructureThenConfig(f, error_dict) ==
    is_config_valid(f, is_structure_valid(f, error_dict))

\* is_application_valid (lines 130-153).
IsApplicationValid(application_name) ==
    /\ api_pc = "idle"
    /\ api_ncalls < MaxApiCalls
    /\ api_ncalls' = api_ncalls + 1
    /\ IF is_application_unique(application_name)
         THEN api_call' = [NoApiCall EXCEPT
                              !.op = "is_application_valid",
                              !.name = application_name,
                              !.error_dict = [NoErrors EXCEPT
                                                 !.error = <<ApplicationDoesNotExist>>]]
         ELSE api_call' = [NoApiCall EXCEPT
                              !.op = "is_application_valid",
                              !.name = application_name,
                              !.validators = <<"structure", "config">>,
                              !.error_dict = StructureThenConfig(app_dir, NoErrors)]
    /\ UNCHANGED <<simVars, app_dir, config_exists, registered, app_entry, networks,
                   exp_entry, exp_input, exp_json, api_pc, no_network_names>>

\* The configuration, the application directories, the networks and the
\* experiment directory before the first call.  A missing configuration
\* registers nothing; a missing experiment directory has no input directory
\* and no experiment.json.
InitApi ==
    /\ config_exists \in BOOLEAN
    /\ registered \in SUBSET AppNames
    /\ ~config_exists => registered = {}
    /\ app_entry \in [AppNames -> {"absent", "dir"}]
    /\ networks \in SUBSET {MaxNetworkNodes}
    /\ exp_entry \in [ExpNames -> {"absent", "dir"}]
    /\ exp_input \in [ExpNames -> BOOLEAN]
    /\ exp_json \in [ExpNames -> 0..MaxExpRounds]
    /\ \A e \in ExpNames : exp_entry[e] = "absent" => (~exp_input[e] /\ exp_json[e] = 0)
    /\ api_pc = "idle"
    /\ api_call = NoApiCall
    /\ api_ncalls = 0
    /\ no_network_names = {}
    /\ app_dir = CompleteAppDir
    /\ EngineIdle
    /\ NetIdle
    /\ DistIdle
    /\ LogIdle
    /\ FlushIdle
    /\ ManagerIdle

NextApi ==
    \/ \E a \in AppNames, n \in 2..MaxApiRoles : CreateApplication(a, n)
    \/ CheckConfig
    \/ CheckUnique
    \/ CreateApplicationStructure
    \/ \E e \in ExpNames : CreateExperiment(e)
    \/ \E e \in ExpNames, v \in AssetValidations : ValidateExperiment(e, v)
    \/ \E e \in ExpNames, all_results \in BOOLEAN : GetResults(e, all_results)

SpecApi == InitApi /\ [][NextApi]_vars

\* The queries of LocalApi that change nothing, on any registration and any
\* application directory.
InitQuery ==
    /\ config_exists \in BOOLEAN
    /\ registered \in SUBSET AppNames
    /\ ~config_exists => registered = {}
    /\ app_dir \in AppDirFacts
    /\ app_entry = [a \in AppNames |-> IF app_dir.config \/ app_dir.src
                                          THEN "dir" ELSE "absent"]
    /\ networks = {}
    /\ exp_entry = [e \in ExpNames |-> "absent"]
    /\ exp_input = [e \in ExpNames |-> FALSE]
    /\ exp_json = [e \in ExpNames |-> 0]
    /\ api_pc = "idle"
    /\ api_call = NoApiCall
    /\ api_ncalls = 0
    /\ no_network_names = {}
    /\ EngineIdle
    /\ NetIdle
    /\ DistIdle
    /\ LogIdle
    /\ FlushIdle
    /\ ManagerIdle

NextQuery ==
    \/ \E n \in NetworkNames, listed \in SUBSET NetworkSlugs :
           IsNetworkAvailable(n, listed)
    \/ \E a \in AppNames : IsApplicationValid(a)

SpecQuery == InitQuery /\ [][NextQuery]_vars

(* ------------- the round-set manager over several rounds --------------- *)
\* Everything but the manager's own variables.
worldVars == <<engineVars, netVars, distVars, logVars, flushVars, apiVars>>

\* __clean (lines 94-105) without os.makedirs: the directory is removed.
cleanWithoutMakedirs(dir) == "absent"

\* __clean (lines 94-105): the input directory is removed if it is one and
\* made again, so it exists and is empty whatever it was.
clean(dir) == "empty"

\* Path.mkdir(parents=True, exist_ok=True) would never raise.
mkdir_exist_ok_raises(entry) == FALSE

\* Path.mkdir(parents=True) (line 137) raises FileExistsError when the path
\* exists.
mkdir_raises(entry) == entry # "absent"

\* VanillaNetSquidRoundSetManager(...) (lines 29-49): the constructor builds
\* the topology and keeps it in self.netsquid_nodes.
NewManager ==
    /\ m_pc \in {"none", "ready"}
    /\ built < MaxManagers
    /\ built' = built + 1
    /\ netsquid_nodes_id' = built + 1
    /\ m_pc' = "ready"
    /\ m_last_op' = "init"
    /\ UNCHANGED <<worldVars, used_by_round, input_dir, now, m_wtc, stamp_dir,
                   populated_by, m_last, m_round, m_result, nterminate>>

\* process() is called (lines 51-64): the input parser puts the programs and
\* input documents of the round into the input directory.
ProcessCall ==
    /\ m_pc = "ready"
    /\ m_round < MaxProcessCalls
    /\ m_round' = m_round + 1
    /\ input_dir' = "files"
    /\ m_result' = NoRoundResult
    /\ m_last_op' = "process"
    /\ m_pc' = "stage"
    /\ UNCHANGED <<worldVars, built, netsquid_nodes_id, used_by_round, now, m_wtc,
                   stamp_dir, populated_by, m_last, nterminate>>

\* Lines 129-141: LAST is removed, the directory named after the current
\* second is made, LAST is made again.  FileExistsError of mkdir leaves
\* _run_application and process() returns the error record (lines 81-88).
StageRound ==
    /\ m_pc = "stage"
    /\ m_wtc' = now
    /\ IF mkdir_raises(stamp_dir[now])
         THEN /\ m_last' = "absent"
              /\ m_result' = [kind |-> "error", exception_type |-> "FileExistsError"]
              /\ m_pc' = "ready"
              /\ stamp_dir' = stamp_dir
         ELSE /\ m_last' = "empty"
              /\ stamp_dir' = [stamp_dir EXCEPT ![now] = IF @ = "absent" THEN "empty" ELSE @]
              /\ m_result' = m_result
              /\ m_pc' = "load"
    /\ UNCHANGED <<worldVars, built, netsquid_nodes_id, used_by_round, input_dir, now,
                   populated_by, m_round, m_last_op, nterminate>>

\* The loading loop (lines 147-167): every role's AppConfig gets
\* self.netsquid_nodes[role] (line 164), or a module or input document fails
\* to load.
LoadRound(ok) ==
    /\ m_pc = "load"
    /\ IF ok
         THEN /\ used_by_round' = Append(used_by_round, netsquid_nodes_id)
              /\ m_result' = m_result
              /\ m_pc' = "run"
         ELSE /\ used_by_round' = used_by_round
              /\ m_result' = [kind |-> "error", exception_type |-> "FileNotFoundError"]
              /\ m_pc' = "ready"
    /\ UNCHANGED <<worldVars, built, netsquid_nodes_id, input_dir, now, m_wtc,
                   stamp_dir, populated_by, m_last, m_round, m_last_op, nterminate>>

\* Lines 170-188 and 89-92: the programs run, results.yaml is written, LAST
\* is copied into the round's timestamp directory and the result converted;
\* or the simulator raises and process() returns the error record.
RunRound(ok) ==
    /\ m_pc = "run"
    /\ IF ok
         THEN /\ m_last' = "results"
              /\ stamp_dir' = [stamp_dir EXCEPT ![m_wtc] = "copied"]
              /\ populated_by' = [populated_by EXCEPT ![m_wtc] = @ \cup {m_round}]
              /\ m_result' = [kind |-> "success", exception_type |-> ""]
         ELSE /\ UNCHANGED <<m_last, stamp_dir, populated_by>>
              /\ m_result' = [kind |-> "error", exception_type |-> "RuntimeError"]
    /\ m_pc' = "ready"
    /\ UNCHANGED <<worldVars, built, netsquid_nodes_id, used_by_round, input_dir, now,
                   m_wtc, m_round, m_last_op, nterminate>>

\* terminate() (lines 107-109), between two process() calls.
Terminate ==
    /\ m_pc = "ready"
    /\ nterminate < MaxTerminates
    /\ nterminate' = nterminate + 1
    /\ input_dir' = clean(input_dir)
    /\ m_last_op' = "terminate"
    /\ UNCHANGED <<worldVars, m_pc, built, netsquid_nodes_id, used_by_round, now,
                   m_wtc, stamp_dir, populated_by, m_last, m_round, m_result>>

\* A second of wall-clock time passes.
SecondPasses ==
    /\ now < MaxSeconds
    /\ now' = now + 1
    /\ UNCHANGED <<worldVars, m_pc, built, netsquid_nodes_id, used_by_round,
                   input_dir, m_wtc, stamp_dir, populated_by, m_last, m_round,
                   m_result, m_last_op, nterminate>>

\* Before the first manager is made: the experiment may have an input
\* directory and the output of an earlier run.
InitRounds ==
    /\ m_pc = "none"
    /\ built = 0
    /\ netsquid_nodes_id = 0
    /\ used_by_round = <<>>
    /\ input_dir \in {"absent", "empty", "files"}
    /\ now = 0
    /\ m_wtc = 0
    /\ stamp_dir = [s \in Seconds |-> "absent"]
    /\ populated_by = [s \in Seconds |-> {}]
    /\ m_last \in {"absent", "results"}
    /\ m_round = 0
    /\ m_result = NoRoundResult
    /\ m_last_op = "none"
    /\ nterminate = 0
    /\ EngineIdle
    /\ NetIdle
    /\ DistIdle
    /\ LogIdle
    /\ FlushIdle
    /\ ApiIdle

NextRounds ==
    \/ NewManager
    \/ ProcessCall
    \/ StageRound
    \/ \E ok \in BOOLEAN : LoadRound(ok)
    \/ \E ok \in BOOLEAN : RunRound(ok)
    \/ Terminate
    \/ SecondPasses

SpecRounds == InitRounds /\ [][NextRounds]_vars

(* ------------------------- state of the round -------------------------- *)
\* The engine's state machine read off the position of the engine thread:
\* INIT up to the end of loading, RUNNING inside the with-block, COMPLETED
\* once the with-block is left without an exception (round_failed stays
\* False), FAILED once process() has caught an exception.
EngineState ==
    IF round_failed \/ pc = "except" THEN "FAILED"
    ELSE IF pc \in {"submit", "sim_run", "draining", "as_completed"} THEN "RUNNING"
    ELSE IF pc \in {"write_results", "copy", "convert"} THEN "COMPLETED"
    ELSE IF pc \in {"returned", "escaped"} /\ drained THEN "COMPLETED"
    ELSE "INIT"

Returned == {r \in Roles : task[r] = "returned"}
Raised == {r \in Roles : task[r] = "raised"}

\* The raw-results document on disk names no role output.
NoPersistedOutput == results_yaml = <<>> \/ results_yaml[1] = {}

(* ------------------------------ claims --------------------------------- *)

\* C1: process() always returns exactly one round result (a success document
\* or an error record) and never lets an exception escape to its caller,
\* whatever happens during input preparation, output staging, loading, role
\* execution or result conversion.
C1_ProcessNeverRaises ==
    /\ pc # "escaped"
    /\ pc = "returned" => result.kind \in {"success", "error"}

\* C2: if exactly one role's program raises while all the others return, the
\* round ends FAILED: process() returns an error record whose kind and
\* message are those of that role's exception.
C2_OneRaisingRoleFailsRound ==
    \A r \in Roles :
        (/\ pc = "returned"
         /\ Raised = {r}
         /\ Returned = Roles \ {r})
        => /\ EngineState = "FAILED"
           /\ result.kind = "error"
           /\ result.exception_type = RoleException(r).type
           /\ result.message = RoleException(r).message

\* C3: no partial results are exposed: whenever at least one role task has
\* raised, neither the returned round result nor the persisted raw-results
\* document (nor its archived copy) contains the output of any role.
C3_NoPartialResults ==
    Raised # {} =>
        /\ NoPersistedOutput
        /\ archive = <<>> \/ archive[1] = {}
        /\ result.raw = {}

C5_TimeoutFailsRound ==
    (overran /\ pc = "returned")
    => /\ EngineState = "FAILED"
       /\ result.kind = "error"
       /\ result.exception_type = "TimeoutExpired"

\* C6: when two or more role tasks raise in one round, the error record
\* carries the kind and message of the first failure the engine observed.
C6_FirstFailureReported ==
    (pc = "returned" /\ Len(printed) >= 2)
    => /\ result.kind = "error"
       /\ result.exception_type = printed[1].type
       /\ result.message = printed[1].message

\* C7 as stated: in every round ns.sim_run() is called exactly once.
C7_DrainExactlyOnceEveryRound ==
    pc = "returned" => sim_calls = 1

\* C7 as amended: ns.sim_run() is called at most once per round and only
\* after the task of every role has been submitted; a round that gets as far
\* as submitting its tasks calls it exactly once, and a round that aborts
\* before (staging or loading fails) never calls it.
C7_DrainOnceAfterSubmission ==
    /\ sim_calls <= 1
    /\ sim_calls = 1 => /\ nsubmitted = Len(role_dict)
                        /\ \A r \in Roles : task[r] # "none"
    /\ pc \in {"draining", "as_completed", "write_results", "copy", "convert"}
          => sim_calls = 1
    /\ (pc = "returned" /\ result.kind = "success") => sim_calls = 1
    /\ (nsubmitted < Len(role_dict)) => sim_calls = 0

\* Witness of C7: the drain has been called in a round of several roles, and
\* the round has ended.
C7_Witness ==
    /\ pc = "returned"
    /\ sim_calls = 1
    /\ Len(role_dict) >= 2

\* C8: no role task schedules its first simulated wait after the drain has
\* returned, so none remains suspended forever.
C8_NoWaitAfterDrain ==
    \A r \in Roles : ~(drained /\ task[r] = "waiting")

\* C9: without a timeout, the engine does not write the raw-results document,
\* copy the output to the archive or return from the round until every
\* submitted role task has returned or raised.
C9_NoPersistBeforeTasksFinish ==
    (/\ timeout = NoTimeout
     /\ \/ results_yaml # <<>>
        \/ archive # <<>>
        \/ wtc_dir = "copied"
        \/ pc \in {"write_results", "copy", "convert", "returned", "escaped"})
    => \A r \in Roles : task[r] \in {"none", "returned", "raised"}

\* Witness of C9: a round without timeout has written and archived its raw
\* results and returned, after one role raised and another returned.
C9_Witness ==
    /\ pc = "returned"
    /\ timeout = NoTimeout
    /\ archive # <<>>
    /\ Raised # {}
    /\ Returned # {}

\* C10: the pool has at least as many workers as the round has roles, so
\* all role tasks run at the same time: no role task sits in the pool's queue
\* while every worker is held by another role task.
C10_NoTaskWaitsForWorker ==
    ~(queue # <<>> /\ Cardinality(Busy) >= max_workers)

UniqueMatch(role) ==
    Cardinality({i \in DOMAIN node_properties :
                    node_properties[i].slug = role_slug[role]}) = 1

\* The roles of the role table given to the builder.
NetRoles == {role_dict[i] : i \in DOMAIN role_dict}

\* The roles for which a node was built.
BuiltRoles == {netsquid_nodes[k].role : k \in DOMAIN netsquid_nodes}

\* The classical (quantum) links built between two roles, in either order.
LinksBetween(links, a, b) ==
    {k \in DOMAIN links : {links[k].one, links[k].two} = {a, b}}

\* The channel catalog has an entry for the two roles' slugs, either order.
ChannelMatches(a, b) == ChannelTemplateOf(role_slug[a], role_slug[b]) # 0

\* C12: topology construction fails when a role's node-template slug has no
\* unique match in the node-template catalog; a returned topology has a node
\* for every role, each resolved from a unique catalog entry.
C12_NoUniqueMatchFails ==
    net_pc = "returned" =>
        /\ \A role \in NetRoles : UniqueMatch(role)
        /\ BuiltRoles = NetRoles

\* C13: the built topology of N >= 2 roles has exactly C(N,2) classical
\* links, exactly one for every unordered pair of distinct roles.
C13_OneClassicalLinkPerPair ==
    net_pc = "returned" =>
        /\ Len(clinks) = NumPairs(Len(role_dict))
        /\ \A a, b \in NetRoles :
               a # b => Cardinality(LinksBetween(clinks, a, b)) = 1

\* C14: in the built topology a pair of roles has a quantum link if and only
\* if the channel catalog has a template for the two roles' node slugs in
\* either order, and it has at most one.
C14_QuantumLinkIffChannelMatches ==
    net_pc = "returned" =>
        \A a, b \in NetRoles :
            a # b => Cardinality(LinksBetween(qlinks, a, b))
                        = IF ChannelMatches(a, b) THEN 1 ELSE 0

\* C15: once the nodes are built, every pair of nodes gets its classical
\* link: neither a failing quantum link nor missing geocoordinates stops the
\* loop over the pairs before the pair's classical link exists.
C15_ClassicalLinkRegardless ==
    /\ net_exc.origin \notin {"coordinates", "create_qlink"}
    /\ net_pc = "returned" => Len(clinks) = NumPairs(Len(netsquid_nodes))

\* C16: node construction never fails on absent or malformed noise
\* parameters; such a node has a perfect detector and zero depolarization.
C16_BadNoiseParametersFallBack ==
    /\ net_exc.origin # "create_processor"
    /\ \A k \in DOMAIN netsquid_nodes :
           node_properties[netsquid_nodes[k].template].params # "det_eff"
               => /\ netsquid_nodes[k].det_eff = "one"
                  /\ netsquid_nodes[k].depolar_rate = "zero"

\* C17: link_distance is symmetric, link_distance(A, B) = link_distance(B, A)
\* for all coordinate pairs, and zero when A and B have the same latitude
\* and longitude.
C17_DistanceSymmetricAndZero ==
    /\ (distance_fwd # NoDistance /\ distance_bwd # NoDistance)
          => distance_fwd = distance_bwd
    /\ (coords_one = coords_two /\ distance_fwd # NoDistance) => distance_fwd = 0
    /\ (coords_one = coords_two /\ distance_bwd # NoDistance) => distance_bwd = 0

\* Witness of C17: both directions are computed for two nodes of different
\* latitude and longitude that lie a positive distance apart.
C17_Witness ==
    /\ coords_one[1] # coords_two[1]
    /\ coords_one[2] # coords_two[2]
    /\ distance_fwd > 0
    /\ distance_bwd > 0

\* One entry was appended to the role's stream and no other role's stream
\* of the kind changed.
AppendedTo(before, after, role) ==
    /\ Len(after[role]) = Len(before[role]) + 1
    /\ SubSeq(after[role], 1, Len(before[role])) = before[role]
    /\ \A r \in LogRoles \ {role} : after[r] = before[r]

\* A step that is a call of add_log_command leaves the role's three streams
\* as the tag says: one entry more in the stream of the tag, the others as
\* they were.
RoutedByTag(call) ==
    /\ IF call.log_type = "node-log"
           THEN AppendedTo(instrs_logs, instrs_logs', call.role)
           ELSE instrs_logs' = instrs_logs
    /\ IF call.log_type = "clink-log"
           THEN AppendedTo(clink_logs, clink_logs', call.role)
           ELSE clink_logs' = clink_logs
    /\ IF call.log_type = "qlink-log"
           THEN AppendedTo(qlink_logs, qlink_logs', call.role)
           ELSE qlink_logs' = qlink_logs

\* C18 as stated: every call of add_log_command appends the entry to exactly
\* the stream selected by its tag (node-log, clink-log, qlink-log), leaves
\* the other two unchanged, changes none with any other tag, and raises no
\* error.
C18_AddRoutesByTag ==
    [][last_call'.op = "add" =>
          /\ last_call'.raised = ""
          /\ RoutedByTag(last_call')]_vars

\* C18 amended: the same, except that a qlink-log call whose sender or
\* receiver is not a role of the role table (the default None included)
\* raises KeyError and changes none of the three streams.
C18_AddRoutesByTagOrKeyError ==
    [][last_call'.op = "add" =>
          IF /\ last_call'.log_type = "qlink-log"
             /\ (last_call'.sender \notin LogRoles \/ last_call'.receiver \notin LogRoles)
              THEN /\ last_call'.raised = "KeyError"
                   /\ UNCHANGED <<instrs_logs, clink_logs, qlink_logs>>
              ELSE /\ last_call'.raised = ""
                   /\ RoutedByTag(last_call')]_vars

\* Witness of C18: a role that holds one quantum-link entry has just made a
\* qlink-log call without a receiver, which raised KeyError and left the
\* entry alone.
C18_Witness ==
    /\ last_call.op = "add"
    /\ last_call.log_type = "qlink-log"
    /\ last_call.sender \in LogRoles
    /\ last_call.receiver = NoParty
    /\ last_call.raised = "KeyError"
    /\ Len(qlink_logs[last_call.role]) = 1
    /\ clink_logs[last_call.role] = <<>>

\* C19: with Sender mapped to n1 and Receiver to n2, a quantum-link entry
\* logged with (Sender, Receiver) and one logged with (Receiver, Sender)
\* both have the path key "n1-n2".
C19_PathKeyCanonical ==
    \A role \in LogRoles :
        \A k \in DOMAIN qlink_logs[role] :
            {qlink_logs[role][k].NOD[1], qlink_logs[role][k].NOD[2]} = {1, 2}
                => qlink_logs[role][k].PTH = PathKey(1, 2)

\* The first sequence is a prefix of the second.
IsPrefix(s, t) == Len(s) <= Len(t) /\ SubSeq(t, 1, Len(s)) = s

\* C20: the shared quantum-link log only grows: what it holds is still there,
\* in place, after every later step, the start of a later round included.
C20_QlinkLogOnlyGrows == [][IsPrefix(network_log, network_log')]_vars

\* C21: in every round each role's node-internal log file and classical-link
\* log file in LAST hold only entries of that round's logger: the file is
\* absent or a copy of what the role's stream of this round held when it was
\* flushed, also for a role that has logged nothing in the round.
C21_RoleFilesOfCurrentRoundOnly ==
    \A r \in LogRoles :
        /\ IsPrefix(instr_file[r], instrs_logs[r])
        /\ IsPrefix(clink_file[r], clink_logs[r])

\* Witness of C21: a later round has ended in which the first role flushed a
\* node entry and a classical entry and the second role logged nothing and
\* has no file.
C21_Witness ==
    /\ log_round = 2
    /\ round_pc = "copied"
    /\ finished[1] /\ finished[2]
    /\ Len(instr_file[1]) = 1
    /\ Len(clink_file[1]) = 1
    /\ instr_file[2] = <<>>
    /\ clink_file[2] = <<>>

\* LAST holds no log file.
NoLogs == [instr |-> [r \in LogRoles |-> <<>>],
           clink |-> [r \in LogRoles |-> <<>>],
           network |-> <<>>]

\* C23: when a round starts and cleans LAST, what LAST held from the previous
\* round is in a timestamp directory already, also when that round failed.
C23_ArchivedBeforeCleaned ==
    [][log_round' = log_round + 1 =>
          (LastLogs = NoLogs \/ wtc_copy = <<LastLogs>>)]_vars

\* The entries of a stream are in non-decreasing order of WCT.
SortedByTime(stream) ==
    \A i, j \in DOMAIN stream : i < j => stream[i].WCT <= stream[j].WCT

\* C24: each of a role's three streams is ordered by non-decreasing virtual
\* timestamp, whatever the order of the add_log_command calls.
C24_StreamsSortedByTime ==
    \A r \in LogRoles :
        /\ SortedByTime(instrs_logs[r])
        /\ SortedByTime(clink_logs[r])
        /\ SortedByTime(qlink_logs[r])

\* The pieces of the file are whole entries one after the other: every
\* entry's first piece is followed at once by the second piece of the same
\* entry.
Intact(bytes) ==
    /\ Len(bytes) % 2 = 0
    /\ \A i \in DOMAIN bytes :
           i % 2 = 1 => /\ bytes[i][2] = 1
                        /\ bytes[i + 1] = <<bytes[i][1], 2>>

\* How often the entry, whole, is in the file.
TimesIn(bytes, entry) ==
    Cardinality({i \in DOMAIN bytes :
                    /\ i < Len(bytes)
                    /\ bytes[i] = <<entry, 1>>
                    /\ bytes[i + 1] = <<entry, 2>>})

\* How often the entry is in the role's stream.
TimesLogged(role, entry) ==
    Cardinality({k \in DOMAIN qlink_logs[role] : qlink_logs[role][k] = entry})

\* C22: when the roles' loggers have run finish_logging at the same time,
\* the shared quantum-link log holds every entry of every role as often as
\* it was logged and whole: none lost, none cut, none mixed with an entry of
\* the other role.
C22_ConcurrentFlushKeepsEntriesIntact ==
    (\A r \in LogRoles : flush_pc[r] = "closed") =>
        /\ Intact(network_bytes)
        /\ \A r \in LogRoles :
               \A k \in DOMAIN qlink_logs[r] :
                   TimesIn(network_bytes, qlink_logs[r][k])
                       = TimesLogged(r, qlink_logs[r][k])

\* C25: a role task that raises cancels no sibling.  A task ends only by
\* returning or raising out of its own run, one task per step, and once a
\* task has raised the engine is past the with-block only when every task
\* of the round has ended.
C25_SiblingsNotCancelled ==
    /\ []((/\ \E r \in Roles : task[r] = "raised"
           /\ pc \in {"write_results", "copy", "convert", "returned", "escaped"})
             => \A s \in Roles : task[s] \in {"returned", "raised"})
    /\ [][\A s \in Roles :
             (task'[s] # task[s] /\ task'[s] \in {"returned", "raised"})
                 => /\ task[s] \in {"running", "resumed"}
                    /\ \A o \in Roles \ {s} : task'[o] = task[o]]_vars

\* Witness of C25: the engine has already taken the raised future of the
\* first role from as_completed while the second role, resumed after its
\* simulated wait, is still running.
C25_Witness ==
    /\ pc = "as_completed"
    /\ task[1] = "raised"
    /\ 1 \in processed
    /\ Len(role_dict) >= 2
    /\ task[2] = "resumed"

\* C26: create_application has the configuration in place before it checks
\* the name; a call for a registered name ends with ApplicationAlreadyExists
\* without creating or registering anything, and a call for any other name
\* runs the creation of the structure exactly once.
C26_CreateApplicationChecksName ==
    /\ [](api_pc \in {"is_unique", "structure"} => config_exists)
    /\ [][(api_pc # "idle" /\ api_pc' = "idle") =>
             IF api_call.name \in registered
                 THEN /\ api_call'.raised = "ApplicationAlreadyExists"
                      /\ api_call'.structure_calls = 0
                      /\ UNCHANGED <<app_entry, registered>>
                 ELSE /\ api_call'.raised # "ApplicationAlreadyExists"
                      /\ api_call'.structure_calls = 1]_vars

\* Witness of C26: the second call asked for an application that is
\* registered and has its directory, and was refused.
C26_Witness ==
    /\ api_pc = "idle"
    /\ api_ncalls = 2
    /\ api_call.op = "create_application"
    /\ api_call.raised = "ApplicationAlreadyExists"
    /\ api_call.name \in registered
    /\ app_entry[api_call.name] = "dir"

\* C27: a creation that finds no network with at least as many nodes as the
\* application has roles raises NoNetworkAvailable, leaves no application
\* directory and does not register the name, and no later creation of that
\* name is refused as already existing.
C27_NoNetworkLeavesNothing ==
    /\ (/\ api_pc = "idle"
        /\ api_call.op = "create_application"
        /\ api_call.structure_calls = 1
        /\ \A n \in networks : n < api_call.nroles)
          => /\ api_call.raised = "NoNetworkAvailable"
             /\ app_entry[api_call.name] = "absent"
             /\ api_call.name \notin registered
    /\ api_call.raised = "NoNetworkAvailable" => \A n \in networks : n < api_call.nroles
    /\ api_call.raised = "ApplicationAlreadyExists"
          => api_call.name \notin no_network_names

\* Witness of C27: the second call creates the name whose first creation
\* ended in NoNetworkAvailable, and has passed the check of the name.
C27_Witness ==
    /\ api_ncalls = 2
    /\ api_pc = "structure"
    /\ api_call.name \in no_network_names

\* C28: create_experiment on an existing experiment directory returns
\* (False, "Experiment directory <name> already exists.") and creates and
\* writes nothing; otherwise it creates the directory and its input
\* directory, writes experiment.json once and returns (True, "Success").
C28_CreateExperimentOnce ==
    [][(api_ncalls' = api_ncalls + 1 /\ api_call'.op = "create_experiment") =>
          IF exp_entry[api_call'.name] = "dir"
              THEN /\ api_call'.ret = <<FALSE, <<"Experiment directory ", api_call'.name,
                                                 " already exists.">>>>
                   /\ api_call'.json_writes = 0
                   /\ UNCHANGED <<exp_entry, exp_input, exp_json>>
              ELSE /\ api_call'.ret = <<TRUE, <<"Success">>>>
                   /\ api_call'.json_writes = 1
                   /\ exp_entry'[api_call'.name] = "dir"
                   /\ exp_input'[api_call'.name]
                   /\ exp_json'[api_call'.name] # 0]_vars

\* Witness of C28: the experiment was created by the first call and the
\* second call, for the same name, was turned down.
C28_Witness ==
    /\ api_ncalls = 2
    /\ api_call.op = "create_experiment"
    /\ api_call.ret = <<FALSE, ExperimentExists(api_call.name)>>
    /\ exp_json[api_call.name] = 1
    /\ exp_input[api_call.name]

\* C29: validate_experiment without an experiment.json returns (False,
\* "File experiment.json not found in the current working directory") and
\* does not call the asset validation; with the file it calls the validation
\* once and returns its result.
C29_ValidateExperimentResult ==
    api_call.op = "validate_experiment" =>
        IF exp_json[api_call.name] = 0
            THEN /\ api_call.ret =
                       <<FALSE, <<"File experiment.json not found in the current working directory">>>>
                 /\ api_call.validations = 0
            ELSE /\ api_call.validations = 1
                 /\ api_call.ret = api_call.asset_result

\* Witness of C29: the asset validation of an existing experiment.json was
\* called and its negative result returned.
C29_Witness ==
    /\ api_call.op = "validate_experiment"
    /\ api_call.validations = 1
    /\ api_call.ret = <<FALSE, <<"invalid asset">>>>

\* C30: get_results on an experiment of N rounds converts the rounds 1..N,
\* each once and in ascending order, when all_results is true, and only
\* round N otherwise.
C30_ResultsOfEveryRound ==
    api_call.op = "get_results" =>
        api_call.converted = IF api_call.all_results
                                 THEN [i \in 1..exp_json[api_call.name] |-> i]
                                 ELSE <<exp_json[api_call.name]>>

\* C31: is_network_available answers True when the slug of the network name
\* is among the networks of the application configuration and False
\* otherwise.
C31_AvailableIffListed ==
    api_call.op = "is_network_available" =>
        (api_call.available <=> get_network_slug(api_call.name) \in api_call.app_networks)

\* C32: is_application_valid on a name that is not registered returns the
\* dictionary with the one error "Application does not exist" and runs no
\* validation; on a registered name it runs the structure validation, then
\* the config validation, returns what they found in that order and does not
\* report "Application does not exist".
C32_ValidatesRegisteredOnly ==
    [][(api_ncalls' = api_ncalls + 1 /\ api_call'.op = "is_application_valid") =>
          IF api_call'.name \notin registered
              THEN /\ api_call'.error_dict =
                         [error |-> << <<"Application does not exist">> >>,
                          warning |-> <<>>, info |-> <<>>]
                   /\ api_call'.validators = <<>>
              ELSE /\ api_call'.validators = <<"structure", "config">>
                   /\ LET s == is_structure_valid(app_dir, NoErrors)
                      IN  /\ api_call'.error_dict.warning = s.warning
                          /\ api_call'.error_dict.error =
                                 s.error \o is_config_valid(app_dir, NoErrors).error
                   /\ api_call'.error_dict.info = <<>>
                   /\ \A i \in 1..Len(api_call'.error_dict.error) :
                         api_call'.error_dict.error[i] # <<"Application does not exist">>]_vars

\* Witness of C32: a registered application was validated; the structure
\* validation reported application.json and the config validation, after it,
\* the schema of network.json.
C32_Witness ==
    /\ api_call.op = "is_application_valid"
    /\ api_call.name \in registered
    /\ api_call.error_dict.error =
           <<JsonMessage("application.json"), SchemaMessage("network.json")>>
    /\ api_call.error_dict.warning # <<>>

\* C33: after a round whose run reached its end, the timestamp directory of
\* the round holds what LAST holds: every role's two log files, the shared
\* quantum-link log and the raw-results document, each with the same
\* content.
C33_ArchiveMirrorsLast ==
    round_pc = "copied" =>
        /\ wtc_copy = <<[instr |-> instr_file, clink |-> clink_file,
                         network |-> network_log]>>
        /\ results_file # <<>>
        /\ wtc_results = results_file

\* Witness of C33: a round has ended whose LAST holds a per-role log file
\* and a quantum-link log, both of them in the timestamp directory with the
\* results.
C33_Witness ==
    /\ round_pc = "copied"
    /\ \E r \in LogRoles : instr_file[r] # <<>> \/ clink_file[r] # <<>>
    /\ network_log # <<>>
    /\ wtc_copy[1].network = network_log
    /\ wtc_results = <<"v1">>

\* C38: the output is staged before the first role program is loaded, so
\* once a program is loaded LAST is new and the timestamp directory exists,
\* and a round that fails while loading a program or reading an input
\* document ends with an empty LAST, an empty timestamp directory and no
\* raw-results document, with no task submitted.
C38_StagedBeforeLoading ==
    /\ nloaded > 0 => (last_dir = "fresh" /\ wtc_dir \in {"created", "copied"})
    /\ (pc \in {"except", "returned"} /\ exc.type = "FileNotFoundError") =>
          /\ last_dir = "fresh"
          /\ wtc_dir = "created"
          /\ results_yaml = <<>>
          /\ archive = <<>>
          /\ nsubmitted = 0

\* Witness of C38: LAST held the previous round's output, the second role's
\* program failed to load after the first was loaded, and process() has
\* returned the error record.
C38_Witness ==
    /\ pc = "returned"
    /\ exc.type = "FileNotFoundError"
    /\ nloaded = 1
    /\ result.kind = "error"
    /\ last_dir = "fresh"
    /\ results_yaml = <<>>

\* C34: a topology lives for one round: no two rounds of process() hand
\* their role programs the same node and link instances.
C34_TopologyPerRound ==
    \A i, j \in DOMAIN used_by_round : i # j => used_by_round[i] # used_by_round[j]

C39_OneRoundPerTimestamp ==
    /\ [](\A s \in Seconds : Cardinality(populated_by[s]) <= 1)
    /\ [][(m_pc = "stage" /\ m_pc' # "stage" /\ stamp_dir[now] # "absent") =>
             /\ m_pc' = "ready"
             /\ m_result' = [kind |-> "error", exception_type |-> "FileExistsError"]
             /\ m_last' = "absent"
             /\ UNCHANGED <<used_by_round, stamp_dir, populated_by>>]_vars

\* Witness of C39: the second round started in the second in which the first
\* had filled its timestamp directory, and process() has returned the error
\* record.
C39_Witness ==
    /\ m_round = 2
    /\ m_pc = "ready"
    /\ m_result.exception_type = "FileExistsError"
    /\ stamp_dir[now] = "copied"
    /\ populated_by[now] = {1}
    /\ m_last = "absent"

\* C36: a qlink-log call appends its entry only when the sender and the
\* receiver are both keys of the role table; with either of them missing the
\* call raises and none of the logger's three streams changes.
C36_QlinkNeedsMappedParties ==
    [][(last_call'.op = "add" /\ last_call'.log_type = "qlink-log") =>
          IF last_call'.sender \in DOMAIN role_slug /\ last_call'.receiver \in DOMAIN role_slug
              THEN /\ last_call'.raised = ""
                   /\ AppendedTo(qlink_logs, qlink_logs', last_call'.role)
                   /\ UNCHANGED <<instrs_logs, clink_logs>>
              ELSE /\ last_call'.raised # ""
                   /\ UNCHANGED <<instrs_logs, clink_logs, qlink_logs>>]_vars

\* Witness of C36: a qlink-log call with a sender that is no role has raised
\* while the logger's quantum-link stream holds the entry of an earlier call.
C36_Witness ==
    /\ last_call.op = "add"
    /\ last_call.log_type = "qlink-log"
    /\ last_call.sender = NoParty
    /\ last_call.receiver \in LogRoles
    /\ last_call.raised = "KeyError"
    /\ Len(qlink_logs[last_call.role]) = 1

\* C37: finish_logging leaves the streams as they are, and a call on a
\* logger that has finished before, with no add in between, leaves the
\* node-internal and classical-link files as they are and appends the role's
\* whole quantum-link stream to the shared log once more.
C37_SecondFinishAppendsAgain ==
    [][last_call'.op = "finish" =>
          /\ UNCHANGED <<instrs_logs, clink_logs, qlink_logs>>
          /\ finished[last_call'.role] =>
                /\ UNCHANGED <<instr_file, clink_file>>
                /\ network_log' = network_log \o qlink_logs[last_call'.role]]_vars

\* Witness of C37: the first role has called finish_logging twice with one
\* quantum-link entry, which is in the shared log twice.
C37_Witness ==
    /\ last_call.op = "finish"
    /\ last_call.role = 1
    /\ Len(qlink_logs[1]) = 1
    /\ qlink_logs[2] = <<>>
    /\ network_log = qlink_logs[1] \o qlink_logs[1]
    /\ instr_file[1] # <<>>

====
